---- MODULE Spec2Model ----
(***************************************************************************)
(* A model of the MARS engine of drivasperez/mars: the core loader         *)
(* (CoreBuilder::build, Fixed separation) and the cycle interpreter        *)
(* (Core::run / Core::run_once / Core::evaluate_operand / Core::fold) of   *)
(* src/core/mod.rs and src/core/corebuilder.rs.                            *)
(*                                                                         *)
(* Spec runs the matches of a core built with Fixed separation and         *)
(* SpecRandom those of a core built with Random separation; SpecBuilder    *)
(* is CoreBuilder::load_warriors on a builder that has not been built,     *)
(* SpecFold is Core::fold and SpecEvaluate is NumericExpr::evaluate of     *)
(* src/parser/numeric_expr.rs, each called on its own; SpecStartingLine    *)
(* is Warrior's get_starting_line and SpecMetadata Metadata::insert_value  *)
(* of src/warrior.rs.  SpecDistances runs matches with read_distance and   *)
(* write_distance any factors of the core size.  SpecRun is Core::run      *)
(* scheduled to its end; SpecVisualiser is run_with_visualiser of          *)
(* src/visual: the executor, visualiser and controller threads and their   *)
(* channels.  SpecFromLines is Warrior::from_lines on the lines of a       *)
(* source and SpecReplace is replace_definitions of src/parser/mod.rs.     *)
(*                                                                         *)
(* Core cells hold usize addresses.  The model keeps the unsigned word but *)
(* scales its width to UsizeBits bits; a build with overflow checks        *)
(* (debug) panics on an overflowing +, -, * while a build without them     *)
(* (release) wraps, and overflow_checks chooses between the two builds.    *)
(***************************************************************************)
EXTENDS Integers, Sequences, FiniteSets, TLC

VARIABLES
    warriors,               \* CoreBuilder.warriors, as loaded by load_warriors
    separation,             \* CoreBuilder.separation: Fixed(k) or Random(min_separation)
    offsets,                \* build: the cell at which each warrior's first instruction is loaded
    last_call,              \* the last call made from outside: function, argument, value returned
    metadata,               \* the Metadata record insert_value is applied to
    overflow_checks,        \* TRUE: debug build (overflow panics), FALSE: release (wraps)
    read_distance,          \* CoreBuilder.read_distance
    write_distance,         \* CoreBuilder.write_distance
    instructions,           \* Core.instructions
    task_queues,            \* Core.task_queues
    current_queue,          \* Core.current_queue
    total_instructions,     \* Core.total_instructions
    living_warriors_count,  \* Core.living_warriors_count
    status,                 \* where Core::run stands: "Continue", "GameOver", "Panic"
    executed,               \* history: the tasks run so far, <<warrior, pc, opcode>> each
    enqueued,               \* history: per warrior, every PC pushed on its queue, in order
    kills,                  \* history: per warrior, how often the empty-queue arm ran for it
    event_channel,          \* run_with_visualiser: the events sent on tx and not yet received on rx
    executor_canceller,     \* the control messages sent to the executor and not yet received
    visualiser_canceller,   \* the control messages sent to the visualiser and not yet received
    executor,               \* where the executor thread stands
    visualiser,             \* where the visualiser (the scope's own thread) stands
    controller,             \* where the controller thread stands
    outcomes,               \* history: the outcomes run_once has returned to the executor
    received,               \* history: the events the visualiser has received
    keys                    \* history: the number of key events the controller has read

\* the state of run_with_visualiser
visual_vars == <<event_channel, executor_canceller, visualiser_canceller, executor, visualiser,
                 controller, outcomes, received, keys>>

vars == <<warriors, separation, offsets, last_call, metadata, overflow_checks, read_distance,
          write_distance, instructions, task_queues, current_queue,
          total_instructions, living_warriors_count, status, executed, enqueued, kills,
          visual_vars>>

---------------------------------------------------------------------------
(* Bounds of the model and the configuration of the CoreBuilder.           *)

\* core_size of the CoreBuilder (8000 by default), scaled down
CoreSize == 4
\* the number of warriors loaded after the first one
MaxOpponents == 1
\* instruction_limit of the CoreBuilder (100 by default), scaled down
InstructionLimit == 8
\* cycles_before_tie of the CoreBuilder (80000 by default), scaled down
CyclesBeforeTie == 5
\* maximum_number_of_tasks of the CoreBuilder (8000 by default), scaled down
MaximumNumberOfTasks == 2
\* the k of Separation::Fixed(k)
FixedSeparation == 1
\* the width of usize, scaled down from 64 bits
UsizeBits == 8
\* the largest m of the Separation::Random(m) the builder is given
MaxMinimumSeparation == 5
\* the longest list of warriors load_warriors is called with in the builder's own checks
MaxLoaded == 2
\* Core::fold on its own: the largest core size and the largest pointer it is called with
MaxFoldCoreSize == 6
MaxFoldPtr == 20
\* NumericExpr::evaluate on its own: the numbers of the expressions are -1 .. MaxNumber
\* and the current line is 0 .. MaxLine
MaxNumber == 2
MaxLine == 2
\* get_starting_line on its own: the largest number of ORG statements (END included)
MaxOrgs == 2
\* Metadata::insert_value: the largest number of values applied to one record
MaxMetadataValues == 3
\* Warrior::from_lines: the largest number of lines of a source, END apart
MaxSourceLines == 3
\* replace_definitions: the largest number of lines of a source text, END apart
MaxTextLines == 3
\* run_with_visualiser: the capacity of the event channel (channel::bounded(100))
ChannelCapacity == 2
\* the largest number of key events the controller reads
MaxKeys == 2

UsizeMod == 2 ^ UsizeBits
\* read_distance and write_distance default to core_size
ReadDistance == CoreSize
WriteDistance == CoreSize

---------------------------------------------------------------------------
(* Instructions.                                                           *)

Opcodes == {"DAT", "MOV", "ADD", "SUB", "MUL", "DIV", "MOD", "JMP", "JMZ", "JMN",
            "DJN", "SLT", "SEQ", "SNE", "SPL", "NOP"}

Modifiers == {"A", "B", "AB", "BA", "F", "X", "I"}

AddressModes == {"Immediate", "Direct", "AFieldIndirect", "BFieldIndirect",
                 "AFieldPredecrementIndirect", "BFieldPredecrementIndirect",
                 "AFieldPostincrementIndirect", "BFieldPostincrementIndirect"}

\* Instruction::new
Instruction(opcode, modifier, mode_a, addr_a, mode_b, addr_b) ==
    [opcode |-> opcode, modifier |-> modifier, mode_a |-> mode_a, addr_a |-> addr_a,
     mode_b |-> mode_b, addr_b |-> addr_b]

\* Metadata::new: every field None (a field is <<>> for None and <<text>> for Some(text),
\* a text being the sequence of the pieces pushed onto the String)
new_metadata ==
    [name |-> <<>>, author |-> <<>>, date |-> <<>>, strategy |-> <<>>, version |-> <<>>]

\* run_with_visualiser before the threads have taken a step: the three channels are
\* empty, the executor is at the top of its loop, the visualiser at rx.recv() and the
\* controller at read()
InitVisual ==
    /\ event_channel = <<>>
    /\ executor_canceller = <<>>
    /\ visualiser_canceller = <<>>
    /\ executor = "try_recv"
    /\ visualiser = "recv"
    /\ controller = "read"
    /\ outcomes = <<>>
    /\ received = <<>>
    /\ keys = 0

\* Instruction::default: DAT.F $0, $0
DefaultInstruction == Instruction("DAT", "F", "Direct", 0, "Direct", 0)

\* keep_in_bounds: (input + offset) brought into 0 .. m-1
RECURSIVE keep_in_bounds(_, _, _)
keep_in_bounds(input, offset, m) ==
    IF input + offset < 0
    THEN keep_in_bounds(input + m, offset, m)
    ELSE (input + offset) % m

\* CoreInstruction::from_instruction
from_instruction(instruction, current_offset, core_size) ==
    [opcode |-> instruction.opcode,
     modifier |-> instruction.modifier,
     mode_a |-> instruction.mode_a,
     addr_a |-> keep_in_bounds(instruction.addr_a, current_offset, core_size),
     mode_b |-> instruction.mode_b,
     addr_b |-> keep_in_bounds(instruction.addr_b, current_offset, core_size)]

\* a faulty fold: the pointer is returned as it is
fold_identity(ptr, limit, core_size) == ptr

\* Core::fold
fold(ptr, limit, core_size) ==
    LET result == ptr % limit
    IN  IF result > (limit \div 2) THEN result + (core_size - limit) ELSE result

---------------------------------------------------------------------------
(* usize arithmetic: a raw result outside the word panics when the build   *)
(* checks overflow and wraps otherwise.                                    *)

Overflows(raw) == raw < 0 \/ raw >= UsizeMod
Wrap(raw) == raw % UsizeMod

\* the A or the B address of a cell
Field(cell, f) == IF f = "a" THEN cell.addr_a ELSE cell.addr_b

\* memory with the A or the B address of cell ptr set to v
SetField(mem, ptr, f, v) ==
    IF f = "a" THEN [mem EXCEPT ![ptr].addr_a = v] ELSE [mem EXCEPT ![ptr].addr_b = v]

---------------------------------------------------------------------------
(* Core::evaluate_operand.  The result is the pointer, the memory after    *)
(* the pre-decrement or post-increment, and whether an overflow check      *)
(* failed on the way.                                                      *)

\* the field of the intermediate cell an indirect mode goes through
IndirectField(mode) ==
    IF mode \in {"AFieldIndirect", "AFieldPredecrementIndirect", "AFieldPostincrementIndirect"}
    THEN "a" ELSE "b"

evaluate_operand(mem, mode, addr, task) ==
    LET sum1 == addr + task
        next == fold(Wrap(sum1), read_distance, CoreSize)
        f    == IndirectField(mode)
        old  == Field(mem[next], f)
    IN  CASE mode = "Immediate" ->
               [ptr |-> 0, mem |-> mem, overflow |-> FALSE]
          [] mode = "Direct" ->
               [ptr |-> next, mem |-> mem, overflow |-> Overflows(sum1)]
          [] mode \in {"AFieldIndirect", "BFieldIndirect"} ->
               \* let addr = self.instructions[next].addr_x; fold(next + addr)
               [ptr |-> fold(Wrap(next + old), read_distance, CoreSize),
                mem |-> mem,
                overflow |-> Overflows(sum1) \/ Overflows(next + old)]
          [] mode \in {"AFieldPredecrementIndirect", "BFieldPredecrementIndirect"} ->
               \* self.instructions[next].addr_x -= 1; then as the indirect mode
               LET dec == Wrap(old - 1)
               IN  [ptr |-> fold(Wrap(next + dec), read_distance, CoreSize),
                    mem |-> SetField(mem, next, f, dec),
                    overflow |-> Overflows(sum1) \/ Overflows(old - 1)
                                    \/ Overflows(next + dec)]
          [] mode \in {"AFieldPostincrementIndirect", "BFieldPostincrementIndirect"} ->
               \* let addr = self.instructions[next].addr_x; self.instructions[next].addr_x += 1
               [ptr |-> fold(Wrap(next + old), read_distance, CoreSize),
                mem |-> SetField(mem, next, f, Wrap(old + 1)),
                overflow |-> Overflows(sum1) \/ Overflows(old + 1)
                                \/ Overflows(next + old)]

---------------------------------------------------------------------------
(* The opcode arms of Core::run_once.  A core state st is                  *)
(* [mem, fault]: the memory and whether the arm has panicked (a failed     *)
(* overflow check, or a division by zero, which panics in every build).    *)

\* x op y on usize, before the overflow check
Arith(opcode, x, y) ==
    CASE opcode = "ADD" -> x + y
      [] opcode = "SUB" -> x - y
      [] opcode = "MUL" -> x * y
      [] opcode = "DIV" -> IF y = 0 THEN 0 ELSE x \div y
      [] opcode = "MOD" -> IF y = 0 THEN 0 ELSE x % y

\* self.instructions[dp].addr_f = Core::fold(self.instructions[dp].addr_f op y, write_distance, core_size)
ArithWrite(st, opcode, dp, f, y) ==
    LET x   == Field(st.mem[dp], f)
        raw == Arith(opcode, x, y)
    IN  [mem   |-> SetField(st.mem, dp, f, fold(Wrap(raw), write_distance, CoreSize)),
         fault |-> st.fault
                     \/ (opcode \in {"DIV", "MOD"} /\ y = 0)
                     \/ (overflow_checks /\ Overflows(raw))]

\* Opcode::Add, Sub, Mul, Div, Mod: the modifier's arm
Arithmetic(st, opcode, modifier, dp, sr) ==
    CASE modifier = "A"  -> ArithWrite(st, opcode, dp, "a", sr.addr_a)
      [] modifier = "B"  -> ArithWrite(st, opcode, dp, "b", sr.addr_b)
      [] modifier = "AB" -> ArithWrite(st, opcode, dp, "b", sr.addr_a)
      [] modifier = "BA" -> ArithWrite(st, opcode, dp, "a", sr.addr_b)
      [] modifier \in {"F", "I"} ->
            ArithWrite(ArithWrite(st, opcode, dp, "a", sr.addr_a), opcode, dp, "b", sr.addr_b)
      [] modifier = "X"  ->
            ArithWrite(ArithWrite(st, opcode, dp, "b", sr.addr_a), opcode, dp, "a", sr.addr_b)

\* a faulty Mov: every modifier copies the whole source register
MovWholeCell(mem, modifier, dp, sr) == [mem EXCEPT ![dp] = sr]

\* a faulty Mov: the X arm reads its second value from the cell it has just written
MovFromCore(mem, modifier, dp, sr) ==
    CASE modifier = "I"  -> [mem EXCEPT ![dp] = sr]
      [] modifier = "A"  -> SetField(mem, dp, "a", sr.addr_a)
      [] modifier = "B"  -> SetField(mem, dp, "b", sr.addr_b)
      [] modifier = "AB" -> SetField(mem, dp, "b", sr.addr_a)
      [] modifier = "BA" -> SetField(mem, dp, "a", sr.addr_b)
      [] modifier = "F"  -> SetField(SetField(mem, dp, "a", sr.addr_a), dp, "b", sr.addr_b)
      [] modifier = "X"  -> LET first == SetField(mem, dp, "b", sr.addr_a)
                            IN  SetField(first, dp, "a", first[dp].addr_b)

\* Opcode::Mov: the modifier's arm
Mov(mem, modifier, dp, sr) ==
    CASE modifier = "I"  -> [mem EXCEPT ![dp] = sr]
      [] modifier = "A"  -> SetField(mem, dp, "a", sr.addr_a)
      [] modifier = "B"  -> SetField(mem, dp, "b", sr.addr_b)
      [] modifier = "AB" -> SetField(mem, dp, "b", sr.addr_a)
      [] modifier = "BA" -> SetField(mem, dp, "a", sr.addr_b)
      [] modifier = "F"  -> SetField(SetField(mem, dp, "a", sr.addr_a), dp, "b", sr.addr_b)
      [] modifier = "X"  -> SetField(SetField(mem, dp, "b", sr.addr_a), dp, "a", sr.addr_b)

\* Opcode::Jmz: the condition under which source_ptr is pushed
JmzJumps(modifier, dr) ==
    CASE modifier \in {"A", "BA"} -> dr.addr_a = 0
      [] modifier \in {"B", "AB"} -> dr.addr_b = 0
      [] OTHER -> dr.addr_a = 0 /\ dr.addr_b = 0

\* Opcode::Jmn: the condition under which source_ptr is pushed
JmnJumps(modifier, dr) ==
    CASE modifier \in {"A", "BA"} -> dr.addr_a # 0
      [] modifier \in {"B", "AB"} -> dr.addr_b # 0
      [] OTHER -> dr.addr_a # 0 /\ dr.addr_b # 0

\* Opcode::Djn: the decrement of the destination's fields
DjnDecrement(st, modifier, dp) ==
    CASE modifier \in {"A", "BA"} -> ArithWrite(st, "SUB", dp, "a", 1)
      [] modifier \in {"B", "AB"} -> ArithWrite(st, "SUB", dp, "b", 1)
      [] OTHER -> ArithWrite(ArithWrite(st, "SUB", dp, "a", 1), "SUB", dp, "b", 1)

\* Opcode::Djn: the condition, read from memory after the decrement (the last arm
\* tests addr_a twice)
DjnJumps(mem, modifier, dp) ==
    CASE modifier \in {"A", "BA"} -> mem[dp].addr_a # 0
      [] modifier \in {"B", "AB"} -> mem[dp].addr_b # 0
      [] OTHER -> mem[dp].addr_a # 0 /\ mem[dp].addr_a # 0

\* Opcode::Seq: skip
SeqSkips(modifier, sr, dr) ==
    CASE modifier = "A"  -> sr.addr_a = dr.addr_a
      [] modifier = "B"  -> sr.addr_b = dr.addr_b
      [] modifier = "AB" -> sr.addr_a = dr.addr_b
      [] modifier = "BA" -> sr.addr_b = dr.addr_a
      [] modifier = "F"  -> sr.addr_a = dr.addr_a /\ sr.addr_b = dr.addr_b
      [] modifier = "X"  -> sr.addr_a = dr.addr_b /\ sr.addr_b = dr.addr_a
      [] modifier = "I"  -> /\ sr.addr_a = dr.addr_a
                            /\ sr.addr_b = dr.addr_b
                            /\ sr.mode_a = dr.mode_a
                            /\ sr.mode_b = sr.mode_b

\* Opcode::Slt: skip
SltSkips(modifier, sr, dr) ==
    CASE modifier = "A"  -> sr.addr_a < dr.addr_a
      [] modifier = "B"  -> sr.addr_b < dr.addr_b
      [] modifier = "AB" -> sr.addr_a < dr.addr_b
      [] modifier = "BA" -> sr.addr_b < dr.addr_a
      [] modifier \in {"F", "I"} -> sr.addr_a < dr.addr_a /\ sr.addr_b < dr.addr_b
      [] modifier = "X"  -> sr.addr_a < dr.addr_b /\ sr.addr_b < dr.addr_a

\* Opcode::Sne: skip
SneSkips(modifier, sr, dr) ==
    CASE modifier = "A"  -> sr.addr_a # dr.addr_a
      [] modifier = "B"  -> sr.addr_b # dr.addr_b
      [] modifier = "AB" -> sr.addr_a # dr.addr_b
      [] modifier = "BA" -> sr.addr_b # dr.addr_a
      [] modifier = "F"  -> sr.addr_a # dr.addr_a \/ sr.addr_b # dr.addr_b
      [] modifier = "X"  -> sr.addr_a # dr.addr_b \/ sr.addr_b # dr.addr_a
      [] modifier = "I"  -> \/ sr.addr_a # dr.addr_a
                            \/ sr.addr_b # dr.addr_b
                            \/ sr.mode_a # dr.mode_a
                            \/ sr.mode_b # sr.mode_b

---------------------------------------------------------------------------
(* One task of Core::run_once, from the instruction register on.           *)

\* a faulty JumpOrNext: both the jump target and the successor are pushed
JumpOrNextBoth(jumps, source_ptr, task) == <<source_ptr, task + 1>>

\* current_queue.push_back(if <jumps> { source_ptr } else { task + 1 })
JumpOrNext(jumps, source_ptr, task) == <<IF jumps THEN source_ptr ELSE task + 1>>

\* a faulty SkipOrNext: both successors are pushed
SkipOrNextBoth(skip, task) == <<task + 1, task + 2>>

\* current_queue.push_back(if skip { task + 2 } else { task + 1 })
SkipOrNext(skip, task) == <<IF skip THEN task + 2 ELSE task + 1>>

\* the program counters the opcode's arm pushes on the current queue, in order;
\* mem is the memory after the arm's writes
Pushes(ir, sr, dr, mem, task, source_ptr, destination_ptr) ==
    CASE ir.opcode = "DAT" -> <<>>
      [] ir.opcode \in {"MOV", "ADD", "SUB", "MUL", "DIV", "MOD", "NOP"} -> <<task + 1>>
      [] ir.opcode = "JMP" -> <<source_ptr>>
      [] ir.opcode = "JMZ" -> JumpOrNext(JmzJumps(ir.modifier, dr), source_ptr, task)
      [] ir.opcode = "JMN" -> JumpOrNext(JmnJumps(ir.modifier, dr), source_ptr, task)
      [] ir.opcode = "DJN" ->
            JumpOrNext(DjnJumps(mem, ir.modifier, destination_ptr), source_ptr, task)
      [] ir.opcode = "SEQ" -> SkipOrNext(SeqSkips(ir.modifier, sr, dr), task)
      [] ir.opcode = "SLT" -> SkipOrNext(SltSkips(ir.modifier, sr, dr), task)
      [] ir.opcode = "SNE" -> SkipOrNext(SneSkips(ir.modifier, sr, dr), task)
      [] ir.opcode = "SPL" -> <<task + 1, sr.addr_a>>

\* the writes of the opcode's arm to core memory
Writes(st, ir, sr, destination_ptr) ==
    CASE ir.opcode = "MOV" ->
            [mem |-> Mov(st.mem, ir.modifier, destination_ptr, sr), fault |-> st.fault]
      [] ir.opcode \in {"ADD", "SUB", "MUL", "DIV", "MOD"} ->
            Arithmetic(st, ir.opcode, ir.modifier, destination_ptr, sr)
      [] ir.opcode = "DJN" -> DjnDecrement(st, ir.modifier, destination_ptr)
      [] OTHER -> st

\* run_once from "instruction_register = self.instructions[task].clone()" to the end
\* of the match on the opcode, for a task inside the core
RunTask(mem, task) ==
    LET ir  == mem[task]
        a   == evaluate_operand(mem, ir.mode_a, ir.addr_a, task)
        sr  == a.mem[a.ptr]
        b   == evaluate_operand(a.mem, ir.mode_b, ir.addr_b, task)
        dr  == b.mem[b.ptr]
        st  == Writes([mem |-> b.mem, fault |-> overflow_checks /\ (a.overflow \/ b.overflow)],
                      ir, sr, b.ptr)
    IN  [mem |-> st.mem,
         fault |-> st.fault,
         pushes |-> Pushes(ir, sr, dr, st.mem, task, a.ptr, b.ptr),
         ir |-> ir, sr |-> sr, dr |-> dr,
         source_ptr |-> a.ptr, destination_ptr |-> b.ptr]

\* a faulty pop_front_push_back: the pushes go on every warrior's queue
push_back_on_all(queues, cq, pushes) ==
    [w \in DOMAIN queues |-> IF w = cq THEN Tail(queues[w]) \o pushes ELSE queues[w] \o pushes]

\* the task queues after current_queue.pop_front() and the push_backs of the opcode's arm
pop_front_push_back(queues, cq, pushes) == [queues EXCEPT ![cq] = Tail(@) \o pushes]

\* the queue whose turn it is
CurrentQueue == task_queues[current_queue]

\* the task at the front of the current queue lies in the core and its step does not panic
TaskRuns ==
    /\ CurrentQueue # <<>>
    /\ Head(CurrentQueue) < CoreSize
    /\ ~RunTask(instructions, Head(CurrentQueue)).fault

\* a faulty NextQueue: the rotation never returns to the first warrior
NextQueueSticks(cq) == IF cq = Len(warriors) - 1 THEN cq ELSE cq + 1

\* self.current_queue after a task has run
NextQueue(cq) == IF cq = Len(warriors) - 1 THEN 0 ELSE cq + 1

\* the return value of run_once after a task has run
LimitOutcome(total) == IF total > InstructionLimit THEN "GameOver" ELSE "Continue"

\* run_once, the arm of an empty queue: the warrior is killed
WarriorKilled ==
    /\ status = "Continue"
    /\ CurrentQueue = <<>>
    /\ living_warriors_count' = living_warriors_count - 1
    /\ status' = IF living_warriors_count' = 0 THEN "GameOver" ELSE "Continue"
    /\ kills' = [kills EXCEPT ![current_queue] = @ + 1]
    /\ UNCHANGED <<warriors, separation, offsets, last_call, metadata, overflow_checks, read_distance, write_distance, instructions, task_queues,
                   current_queue, total_instructions, executed, enqueued, visual_vars>>

\* run_once, a task is popped and runs to the end of the function
TaskExecuted ==
    /\ status = "Continue"
    /\ TaskRuns
    /\ LET task == Head(CurrentQueue)
           r    == RunTask(instructions, task)
       IN  /\ instructions' = r.mem
           /\ task_queues' = pop_front_push_back(task_queues, current_queue, r.pushes)
           /\ executed' = Append(executed, <<current_queue, task, r.ir.opcode>>)
           /\ enqueued' = [enqueued EXCEPT ![current_queue] = @ \o r.pushes]
    /\ current_queue' = NextQueue(current_queue)
    /\ total_instructions' = total_instructions + 1
    /\ status' = LimitOutcome(total_instructions')
    /\ UNCHANGED <<warriors, separation, offsets, last_call, metadata, overflow_checks, read_distance, write_distance, living_warriors_count, kills, visual_vars>>

\* run_once panics: the popped task indexes past the core, an overflow check fails
\* or a division by zero is executed; the thread unwinds and the match is over
Panicked ==
    /\ status = "Continue"
    /\ CurrentQueue # <<>>
    /\ ~TaskRuns
    /\ status' = "Panic"
    /\ UNCHANGED <<warriors, separation, offsets, last_call, metadata, overflow_checks, read_distance, write_distance, instructions, task_queues,
                   current_queue, total_instructions, living_warriors_count, executed,
                   enqueued, kills, visual_vars>>

\* Core::run_once, called by Core::run while it returns Continue
run_once == WarriorKilled \/ TaskExecuted \/ Panicked

\* the Core: its fields and where its run stands
CoreState ==
    [instructions |-> instructions, task_queues |-> task_queues,
     current_queue |-> current_queue, total_instructions |-> total_instructions,
     living_warriors_count |-> living_warriors_count, status |-> status]

\* Core::run_once as a function of the core it is called on
run_once_on(core) ==
    LET queue == core.task_queues[core.current_queue]
    IN  IF queue = <<>>
        THEN [core EXCEPT !.living_warriors_count = @ - 1,
                          !.status = IF core.living_warriors_count - 1 = 0
                                     THEN "GameOver" ELSE "Continue"]
        ELSE IF Head(queue) >= CoreSize \/ RunTask(core.instructions, Head(queue)).fault
             THEN [core EXCEPT !.status = "Panic"]
             ELSE LET r == RunTask(core.instructions, Head(queue))
                  IN  [instructions |-> r.mem,
                       task_queues |-> pop_front_push_back(core.task_queues,
                                                           core.current_queue, r.pushes),
                       current_queue |-> NextQueue(core.current_queue),
                       total_instructions |-> core.total_instructions + 1,
                       living_warriors_count |-> core.living_warriors_count,
                       status |-> LimitOutcome(core.total_instructions + 1)]

---------------------------------------------------------------------------
(* Warriors.                                                               *)

Warrior(instrs, start) == [instructions |-> instrs, starts_at_line |-> start]

\* warriors/imp.red
Imp == Warrior(<<Instruction("MOV", "I", "Direct", 0, "Direct", 1)>>, 0)

\* a warrior that is a single DAT
Wait == Warrior(<<Instruction("DAT", "F", "Immediate", 0, "Immediate", 0)>>, 0)

\* the dwarf of core/test.rs build_and_run_dwarf, started at its ADD
Dwarf ==
    Warrior(<<Instruction("DAT", "F", "Immediate", 0, "Immediate", 0),
              Instruction("ADD", "AB", "Immediate", 4, "Direct", -1),
              Instruction("MOV", "AB", "Immediate", 0, "BFieldIndirect", -2),
              Instruction("JMP", "A", "Direct", -2, "Direct", 0)>>, 1)

\* a warrior that keeps splitting: the SPL of armadillo.red and a jump back to it
Splitter ==
    Warrior(<<Instruction("SPL", "B", "Direct", 0, "Direct", 0),
              Instruction("JMP", "B", "Direct", -1, "Direct", 0)>>, 0)

\* a warrior that jumps to itself for ever
Loop == Warrior(<<Instruction("JMP", "B", "Direct", 0, "Direct", 0)>>, 0)

\* a warrior that copies a SEQ to the cell before it, jumps there and skips from there
TailSkip ==
    Warrior(<<Instruction("MOV", "I", "Direct", 2, "Direct", -1),
              Instruction("JMP", "B", "Direct", -2, "Direct", 0),
              Instruction("SEQ", "I", "Direct", 0, "Direct", 0)>>, 0)

\* a warrior whose MOV.X has the same cell as source and as destination
Swap ==
    Warrior(<<Instruction("MOV", "X", "Direct", 1, "Direct", 1),
              Instruction("DAT", "F", "Immediate", 2, "Immediate", 3)>>, 0)

\* a warrior whose ADD.F has the same cell as source and as destination
Double ==
    Warrior(<<Instruction("ADD", "F", "Direct", 1, "Direct", 1),
              Instruction("DAT", "F", "Immediate", 1, "Immediate", 3)>>, 0)

\* a warrior whose MOV.I replaces the executing instruction by a DAT
SelfErase ==
    Warrior(<<Instruction("MOV", "I", "Direct", 1, "Direct", 0),
              Instruction("DAT", "F", "Immediate", 2, "Immediate", 3)>>, 0)

Library == {Imp, Wait, Dwarf, Splitter, Loop, TailSkip, Swap, Double, SelfErase}

\* the pairs of addressing modes of the probes
ProbeModes ==
    {<<m, "Direct">> : m \in AddressModes} \cup {<<"Direct", m>> : m \in AddressModes}

\* one instruction of every opcode and modifier, over a cell of data
Probe(opcode, modifier, modes) ==
    Warrior(<<Instruction(opcode, modifier, modes[1], 1, modes[2], 2),
              Instruction("DAT", "F", "Immediate", 2, "Immediate", 3)>>, 0)

Probes == {Probe(o, m, p) : o \in Opcodes, m \in Modifiers, p \in ProbeModes}

\* the sequences over S of length lo .. hi
SeqsOf(S, lo, hi) == UNION {[1..n -> S] : n \in lo..hi}

\* the warriors loaded after the first one
Opponents == {Imp, Wait, Loop}

\* the lists load_warriors may be given: a first warrior and up to MaxOpponents more
Matches == {<<c>> \o o : c \in Library \cup Probes, o \in SeqsOf(Opponents, 0, MaxOpponents)}

\* CoreBuilder::load_warriors: Ok
load_warriors_ok(ws) ==
    \A i \in 1..Len(ws) :
        /\ ~(Len(ws[i].instructions) > InstructionLimit)
        /\ ~(Len(ws[i].instructions) = 0)

\* warrior.metadata.name().unwrap_or("Unnamed"); a name is <<>> (None) or <<n>> (Some(n)),
\* and the warriors of the matches carry no metadata
warrior_name(w) ==
    IF "name" \in DOMAIN w /\ w.name # <<>> THEN w.name[1] ELSE "Unnamed"

\* CoreBuilder::load_warriors: what the loop over the warriors returns, from warrior i on
RECURSIVE load_warriors_return(_, _)
load_warriors_return(ws, i) ==
    IF i > Len(ws)
    THEN [kind |-> "Ok"]
    ELSE IF Len(ws[i].instructions) > InstructionLimit
         THEN [kind |-> "WarriorTooLong", len |-> Len(ws[i].instructions),
               limit |-> InstructionLimit, name |-> warrior_name(ws[i])]
         ELSE IF Len(ws[i].instructions) = 0
              THEN [kind |-> "EmptyWarrior", name |-> warrior_name(ws[i])]
              ELSE load_warriors_return(ws, i + 1)

\* a faulty store: the list is stored whatever the loop returned
warriors_after_any_load(old, ws, ret) == ws

\* self.warriors after load_warriors: the assignment is reached only past the loop
warriors_after_load(old, ws, ret) == IF ret.kind = "Ok" THEN ws ELSE old

\* CoreBuilder::load_warriors(ws), on a builder that has not been built yet
load_warriors(ws) ==
    /\ status = "Builder"
    /\ last_call' = [fn |-> "load_warriors", arg |-> ws, ret |-> load_warriors_return(ws, 1)]
    /\ warriors' = warriors_after_load(warriors, ws, load_warriors_return(ws, 1))
    /\ UNCHANGED <<separation, offsets, metadata, overflow_checks, read_distance, write_distance, instructions, task_queues,
                   current_queue, total_instructions, living_warriors_count, executed,
                   enqueued, kills, status, visual_vars>>

\* a warrior of n NOPs
Filler(n) == Warrior([k \in 1..n |-> Instruction("NOP", "F", "Direct", 0, "Direct", 0)], 0)

\* a warrior with the name of its metadata
Named(w, name) ==
    [instructions |-> w.instructions, starts_at_line |-> w.starts_at_line, name |-> name]

\* the warriors load_warriors is tried with: of length 0, 1, the limit, and past the
\* limit, with a name and without
LoadCandidates ==
    {Named(Imp, <<"imp">>), Named(Dwarf, <<>>), Named(Filler(InstructionLimit), <<"full">>),
     Named(Filler(0), <<"empty">>), Named(Filler(0), <<>>),
     Named(Filler(InstructionLimit + 1), <<"long">>),
     Named(Filler(InstructionLimit + 2), <<>>)}

\* CoreBuilder::default(), scaled: no warriors, nothing built
InitBuilder ==
    /\ warriors = <<>>
    /\ separation = [kind |-> "Random", separation |-> MaxMinimumSeparation]
    /\ offsets = <<>>
    /\ last_call = [fn |-> "default", arg |-> <<>>, ret |-> [kind |-> "None"]]
    /\ overflow_checks \in BOOLEAN
    /\ read_distance = ReadDistance
    /\ write_distance = WriteDistance
    /\ metadata = new_metadata
    /\ InitVisual
    /\ instructions = <<>>
    /\ task_queues = <<>>
    /\ current_queue = 0
    /\ total_instructions = 0
    /\ living_warriors_count = 0
    /\ status = "Builder"
    /\ executed = <<>>
    /\ enqueued = <<>>
    /\ kills = <<>>

NextBuilder == \E ws \in SeqsOf(LoadCandidates, 0, MaxLoaded) : load_warriors(ws)

SpecBuilder == InitBuilder /\ [][NextBuilder]_vars

---------------------------------------------------------------------------
(* Core::fold on its own.                                                  *)

\* Core::fold(ptr, limit, core_size) is called and returns
fold_called(ptr, limit, core_size) ==
    /\ last_call' = [fn |-> "fold", arg |-> <<ptr, limit, core_size>>,
                     ret |-> fold(ptr, limit, core_size)]
    /\ UNCHANGED <<warriors, separation, offsets, metadata, overflow_checks, read_distance, write_distance, instructions, task_queues,
                   current_queue, total_instructions, living_warriors_count, executed,
                   enqueued, kills, status, visual_vars>>

\* the calls of fold: any pointer, any core size, any distance up to the core size
NextFold ==
    \E ptr \in 0..MaxFoldPtr, core_size \in 1..MaxFoldCoreSize :
        \E limit \in 1..core_size : fold_called(ptr, limit, core_size)

SpecFold == InitBuilder /\ [][NextFold]_vars

---------------------------------------------------------------------------
(* CoreBuilder::build with Separation::Fixed.                              *)

\* for instruction in &warrior.instructions { core_instructions[ptr] = ...; ptr = fold(ptr + 1) }
\* (the call passes no offset to from_instruction: addresses stay relative to their cell,
\* as core/test.rs expects of `ADD.AB #4, $-1`, loaded as `ADD.AB #4, $9`)
RECURSIVE LoadInstructions(_, _, _, _)
LoadInstructions(mem, ptr, instrs, k) ==
    IF k > Len(instrs)
    THEN [mem |-> mem, ptr |-> ptr]
    ELSE LoadInstructions([mem EXCEPT ![ptr] = from_instruction(instrs[k], 0, CoreSize)],
                          fold(ptr + 1, CoreSize, CoreSize), instrs, k + 1)

\* for (i, warrior) in warriors.iter().enumerate() { ... }
\* (placed records the ptr at which each warrior's first instruction was stored)
RECURSIVE BuildFixed(_, _, _, _, _, _)
BuildFixed(ws, i, ptr, mem, warrior_offsets, placed) ==
    IF i > Len(ws)
    THEN [mem |-> mem, warrior_offsets |-> warrior_offsets, placed |-> placed]
    ELSE LET loaded == LoadInstructions(mem, ptr, ws[i].instructions, 1)
         IN  BuildFixed(ws, i + 1,
                        fold(loaded.ptr + FixedSeparation, CoreSize, CoreSize),
                        loaded.mem,
                        Append(warrior_offsets,
                               fold(ws[i].starts_at_line + ptr, CoreSize, CoreSize)),
                        Append(placed, ptr))

\* a faulty Build: the first warrior is loaded at cell 1
BuildFromOne(ws) ==
    BuildFixed(ws, 1, 1,
               [c \in 0..(CoreSize - 1) |-> from_instruction(DefaultInstruction, 0, CoreSize)],
               <<>>, <<>>)

\* the core and the warrior offsets build computes
Build(ws) ==
    BuildFixed(ws, 1, 0,
               [c \in 0..(CoreSize - 1) |-> from_instruction(DefaultInstruction, 0, CoreSize)],
               <<>>, <<>>)

\* a faulty InitialQueues: every queue is given the first warrior's offset
InitialQueuesOfFirst(warrior_offsets) ==
    [i \in 0..(Len(warrior_offsets) - 1) |->
        <<fold(warrior_offsets[1], CoreSize, CoreSize)>>]

\* the task queues build makes: one per warrior, holding its offset folded once more
InitialQueues(warrior_offsets) ==
    [i \in 0..(Len(warrior_offsets) - 1) |->
        <<fold(warrior_offsets[i + 1], CoreSize, CoreSize)>>]

\* the core CoreBuilder::build returns for one of the matches, with the read and the
\* write distance one of the pairs of distances
InitCore(matches, distances) ==
    /\ warriors \in matches
    /\ load_warriors_ok(warriors)
    /\ overflow_checks \in BOOLEAN
    /\ \E d \in distances : read_distance = d[1] /\ write_distance = d[2]
    /\ metadata = new_metadata
    /\ InitVisual
    /\ separation = [kind |-> "Fixed", separation |-> FixedSeparation]
    /\ last_call = [fn |-> "load_warriors", arg |-> warriors,
                    ret |-> load_warriors_return(warriors, 1)]
    /\ LET built == Build(warriors)
       IN  /\ instructions = built.mem
           /\ offsets = built.placed
           /\ task_queues = InitialQueues(built.warrior_offsets)
           /\ enqueued = InitialQueues(built.warrior_offsets)
    /\ current_queue = 0
    /\ total_instructions = 0
    /\ living_warriors_count = Len(warriors)
    /\ status = "Continue"
    /\ executed = <<>>
    /\ kills = [i \in 0..(Len(warriors) - 1) |-> 0]

\* a match with the distances CoreBuilder::default gives
Init == InitCore(Matches, {<<ReadDistance, WriteDistance>>})

Next == run_once

Spec == Init /\ [][Next]_vars

\* the matches Core::run is followed on to its end: a warrior of the library and up to
\* MaxOpponents more
RunMatches == {<<c>> \o o : c \in Library, o \in SeqsOf(Opponents, 0, MaxOpponents)}

InitRun == InitCore(RunMatches, {<<ReadDistance, WriteDistance>>})

\* Core::run calls run_once again as long as it returns Continue
SpecRun == InitRun /\ [][Next]_vars /\ WF_vars(Next)

\* the values read_distance and write_distance may be given: the factors of the core size
Factors(n) == {d \in 1..n : n % d = 0}

\* the probes of the opcodes that write to the core
WritingProbes == {Probe(o, m, p) : o \in {"MOV", "ADD", "DJN"}, m \in Modifiers, p \in ProbeModes}

\* the matches run with every read and write distance
DistanceMatches ==
    {<<c>> \o o : c \in Library \cup WritingProbes, o \in SeqsOf(Opponents, 0, MaxOpponents)}

\* a match with read_distance and write_distance any two factors of the core size
InitDistances == InitCore(DistanceMatches, Factors(CoreSize) \X Factors(CoreSize))

SpecDistances == InitDistances /\ [][Next]_vars

---------------------------------------------------------------------------
(* run_with_visualiser (visual/mod.rs): the executor thread, the           *)
(* controller thread and the visualiser, which runs on the thread of the   *)
(* scope.  tx/rx is the bounded event channel, the two cancellers are      *)
(* unbounded.  A thread that has returned or panicked has dropped its ends *)
(* of the channels.  The terminal is taken to work: build_terminal and     *)
(* terminal.draw succeed.                                                  *)

\* the thread has left its function, by returning or by a panic
Stopped(thread) == thread \in {"done", "panicked", "failed"}

\* a faulty is_full: the event channel takes any number of events
never_full(channel) == FALSE

\* the bounded channel holds as many messages as its capacity: send blocks
is_full(channel) == Len(channel) >= ChannelCapacity

\* a faulty recv_fails: a receiver is not woken when the senders are dropped
recv_never_fails(channel, senders_dropped) == FALSE

\* recv returns Err: the channel is empty and every sender has been dropped
recv_fails(channel, senders_dropped) == channel = <<>> /\ senders_dropped

\* executor.rs: controller_rx.try_recv(); Close breaks the loop, any other message and
\* an empty or disconnected channel lead on to run_once
executor_try_recv ==
    /\ executor = "try_recv"
    /\ IF executor_canceller # <<>>
       THEN /\ executor_canceller' = Tail(executor_canceller)
            /\ executor' = IF Head(executor_canceller) = "Close" THEN "done" ELSE "run_once"
       ELSE /\ executor' = "run_once"
            /\ UNCHANGED executor_canceller
    /\ UNCHANGED <<warriors, separation, offsets, last_call, metadata, overflow_checks,
                   read_distance, write_distance, instructions, task_queues, current_queue,
                   total_instructions, living_warriors_count, status, executed, enqueued,
                   kills, event_channel, visualiser_canceller, visualiser, controller,
                   outcomes, received, keys>>

\* executor.rs: let outcome = core.run_once(); a panic of run_once ends the thread
executor_run_once ==
    /\ executor = "run_once"
    /\ LET core == run_once_on(CoreState)
       IN  /\ instructions' = core.instructions
           /\ task_queues' = core.task_queues
           /\ current_queue' = core.current_queue
           /\ total_instructions' = core.total_instructions
           /\ living_warriors_count' = core.living_warriors_count
           /\ status' = core.status
           /\ IF core.status = "Panic"
              THEN executor' = "panicked" /\ UNCHANGED outcomes
              ELSE executor' = "send" /\ outcomes' = Append(outcomes, core.status)
    /\ UNCHANGED <<warriors, separation, offsets, last_call, metadata, overflow_checks,
                   read_distance, write_distance, executed, enqueued, kills, event_channel,
                   executor_canceller, visualiser_canceller, visualiser, controller,
                   received, keys>>

\* executor.rs: tx.send(outcome), blocking while the channel is full; the loop is left
\* if the receiver is gone or the outcome was GameOver
executor_send ==
    /\ executor = "send"
    /\ IF Stopped(visualiser)
       THEN /\ executor' = "done"
            /\ UNCHANGED event_channel
       ELSE /\ ~is_full(event_channel)
            /\ event_channel' = Append(event_channel, [outcome |-> outcomes[Len(outcomes)],
                                                       step |-> Len(outcomes)])
            /\ executor' = IF outcomes[Len(outcomes)] = "GameOver" THEN "done" ELSE "try_recv"
    /\ UNCHANGED <<warriors, separation, offsets, last_call, metadata, overflow_checks,
                   read_distance, write_distance, instructions, task_queues, current_queue,
                   total_instructions, living_warriors_count, status, executed, enqueued,
                   kills, executor_canceller, visualiser_canceller, visualiser, controller,
                   outcomes, received, keys>>

\* visualiser.rs: let event = rx.recv()?; an Err makes setup_visualiser return Err, on
\* which run_with_visualiser panics (expect)
visualiser_recv ==
    /\ visualiser = "recv"
    /\ IF event_channel # <<>>
       THEN /\ received' = Append(received, Head(event_channel))
            /\ event_channel' = Tail(event_channel)
            /\ visualiser' = "try_recv"
       ELSE /\ recv_fails(event_channel, Stopped(executor))
            /\ visualiser' = "failed"
            /\ UNCHANGED <<received, event_channel>>
    /\ UNCHANGED <<warriors, separation, offsets, last_call, metadata, overflow_checks,
                   read_distance, write_distance, instructions, task_queues, current_queue,
                   total_instructions, living_warriors_count, status, executed, enqueued,
                   kills, executor_canceller, visualiser_canceller, executor, controller,
                   outcomes, keys>>

\* visualiser.rs: match controller_rx.try_recv(): no message, the frame is drawn and
\* the loop goes on; Close breaks; Paused goes to the blocking recv
visualiser_try_recv ==
    /\ visualiser = "try_recv"
    /\ IF visualiser_canceller = <<>>
       THEN /\ visualiser' = "recv"
            /\ UNCHANGED visualiser_canceller
       ELSE /\ visualiser_canceller' = Tail(visualiser_canceller)
            /\ visualiser' = IF Head(visualiser_canceller) = "Close" THEN "done" ELSE "paused"
    /\ UNCHANGED <<warriors, separation, offsets, last_call, metadata, overflow_checks,
                   read_distance, write_distance, instructions, task_queues, current_queue,
                   total_instructions, living_warriors_count, status, executed, enqueued,
                   kills, event_channel, executor_canceller, executor, controller,
                   outcomes, received, keys>>

\* visualiser.rs: controller_rx.recv().expect(..) while paused: Close breaks, any other
\* message resumes; an Err panics
visualiser_paused_recv ==
    /\ visualiser = "paused"
    /\ IF visualiser_canceller # <<>>
       THEN /\ visualiser_canceller' = Tail(visualiser_canceller)
            /\ visualiser' = IF Head(visualiser_canceller) = "Close" THEN "done" ELSE "recv"
       ELSE /\ recv_fails(visualiser_canceller, Stopped(controller))
            /\ visualiser' = "panicked"
            /\ UNCHANGED visualiser_canceller
    /\ UNCHANGED <<warriors, separation, offsets, last_call, metadata, overflow_checks,
                   read_distance, write_distance, instructions, task_queues, current_queue,
                   total_instructions, living_warriors_count, status, executed, enqueued,
                   kills, event_channel, executor_canceller, executor, controller,
                   outcomes, received, keys>>

\* the key events: ctrl-C and any other key
Keys == {"ctrl-c", "other"}

\* controller.rs: read() returns a key event; match_key_event starts close_all for
\* ctrl-C and pause for any other key
controller_read(key) ==
    /\ controller = "read"
    /\ keys < MaxKeys
    /\ keys' = keys + 1
    /\ controller' = IF key = "ctrl-c" THEN "close_executor" ELSE "pause_executor"
    /\ UNCHANGED <<warriors, separation, offsets, last_call, metadata, overflow_checks,
                   read_distance, write_distance, instructions, task_queues, current_queue,
                   total_instructions, living_warriors_count, status, executed, enqueued,
                   kills, event_channel, executor_canceller, visualiser_canceller, executor,
                   visualiser, outcomes, received>>

\* controller.rs: one sender.send(message).expect(..) of pause or close_all, to the
\* executor first and to the visualiser second; the send fails, and the thread panics,
\* if the receiver has been dropped
controller_send ==
    /\ controller \in {"pause_executor", "pause_visualiser", "close_executor", "close_visualiser"}
    /\ LET message == IF controller \in {"pause_executor", "pause_visualiser"}
                      THEN "Paused" ELSE "Close"
           first   == controller \in {"pause_executor", "close_executor"}
       IN  IF first
           THEN /\ UNCHANGED visualiser_canceller
                /\ IF Stopped(executor)
                   THEN controller' = "panicked" /\ UNCHANGED executor_canceller
                   ELSE /\ executor_canceller' = Append(executor_canceller, message)
                        /\ controller' = IF message = "Paused" THEN "pause_visualiser"
                                         ELSE "close_visualiser"
           ELSE /\ UNCHANGED executor_canceller
                /\ IF Stopped(visualiser)
                   THEN controller' = "panicked" /\ UNCHANGED visualiser_canceller
                   ELSE /\ visualiser_canceller' = Append(visualiser_canceller, message)
                        /\ controller' = IF message = "Paused" THEN "read" ELSE "done"
    /\ UNCHANGED <<warriors, separation, offsets, last_call, metadata, overflow_checks,
                   read_distance, write_distance, instructions, task_queues, current_queue,
                   total_instructions, living_warriors_count, status, executed, enqueued,
                   kills, event_channel, executor, visualiser, outcomes, received, keys>>

\* the matches shown in the visualiser: one whose warrior dies, which ends in GameOver,
\* and one in which run_once panics
VisualMatches == {<<Wait>>, <<Imp>>}

InitVisualiser == InitCore(VisualMatches, {<<ReadDistance, WriteDistance>>})

ExecutorNext == executor_try_recv \/ executor_run_once \/ executor_send

VisualiserNext == visualiser_recv \/ visualiser_try_recv \/ visualiser_paused_recv

NextVisualiser ==
    \/ executor_try_recv
    \/ executor_run_once
    \/ executor_send
    \/ visualiser_recv
    \/ visualiser_try_recv
    \/ visualiser_paused_recv
    \/ \E key \in Keys : controller_read(key)
    \/ controller_send

\* a step of a thread that does not wait for the user
ThreadsNext == ExecutorNext \/ VisualiserNext \/ controller_send

\* the threads are scheduled: while one of them can take a step, one of them does;
\* nothing makes the user press a key
SpecVisualiser ==
    /\ InitVisualiser
    /\ [][NextVisualiser]_vars
    /\ WF_vars(ThreadsNext)

---------------------------------------------------------------------------
(* NumericExpr::evaluate (parser/numeric_expr.rs).  An expression is a     *)
(* Value (a Number or a Label), a Paren, or one of the five binary nodes.  *)
(* The result is Ok(val), an EvaluateError, or the panic of the thread.    *)
(* The numbers of the model stay far from the ends of i64.                 *)

Number(n) == [node |-> "Number", n |-> n]
Label(l) == [node |-> "Label", l |-> l]
Paren(e) == [node |-> "Paren", inner |-> e]
Binary(node, left, right) == [node |-> node, left |-> left, right |-> right]

Operations == {"Add", "Subtract", "Multiply", "Divide", "Modulo"}

\* i64 `/` and `%`: the quotient is truncated towards zero, the remainder has the sign
\* of the dividend (the divisor is not zero)
TruncDiv(a, b) ==
    LET abs(x) == IF x < 0 THEN -x ELSE x
        q == abs(a) \div abs(b)
    IN  IF (a < 0) # (b < 0) THEN -q ELSE q

TruncRem(a, b) == a - b * TruncDiv(a, b)

Ok(val) == [kind |-> "Ok", val |-> val]

\* the binary arms of evaluate, once both operands have a value: +, -, *,
\* checked_div(..).ok_or(DivideByZero), and % (which panics on a zero divisor)
operate(node, x, y) ==
    CASE node = "Add" -> Ok(x + y)
      [] node = "Subtract" -> Ok(x - y)
      [] node = "Multiply" -> Ok(x * y)
      [] node = "Divide" -> IF y = 0 THEN [kind |-> "DivideByZero"] ELSE Ok(TruncDiv(x, y))
      [] node = "Modulo" -> IF y = 0 THEN [kind |-> "Panic"] ELSE Ok(TruncRem(x, y))

\* NumericExpr::evaluate: res, the value of the match on self (`?` returns the first
\* operand's error before the second operand is evaluated)
RECURSIVE evaluate(_, _, _)
evaluate_res(expr, labels, current_line) ==
    CASE expr.node = "Number" -> Ok(expr.n)
      [] expr.node = "Label" ->
            IF expr.l \in DOMAIN labels
            THEN Ok(labels[expr.l])
            ELSE [kind |-> "UndefinedLabel", name |-> expr.l]
      [] expr.node = "Paren" -> evaluate(expr.inner, labels, current_line)
      [] OTHER ->
            LET left == evaluate(expr.left, labels, current_line)
                right == evaluate(expr.right, labels, current_line)
            IN  IF left.kind # "Ok" THEN left
                ELSE IF right.kind # "Ok" THEN right
                ELSE operate(expr.node, left.val, right.val)

\* NumericExpr::evaluate: Ok(if !is_label { res } else { res - current_line as i64 }),
\* is_label being set in the arm of a Label value only
evaluate_offset(expr, res, current_line) ==
    IF res.kind = "Ok" /\ expr.node = "Label" THEN Ok(res.val - current_line) ELSE res

\* NumericExpr::evaluate
evaluate(expr, labels, current_line) ==
    evaluate_offset(expr, evaluate_res(expr, labels, current_line), current_line)

\* the expression has a Label node
RECURSIVE refers_to_label(_)
refers_to_label(expr) ==
    CASE expr.node = "Number" -> FALSE
      [] expr.node = "Label" -> TRUE
      [] expr.node = "Paren" -> refers_to_label(expr.inner)
      [] OTHER -> refers_to_label(expr.left) \/ refers_to_label(expr.right)

\* the label table of the calls: two labels defined, a third one missing
LabelTable == [hello |-> 3, world |-> 1]
LabelNames == {"hello", "world", "missing"}

\* the expressions evaluate is called with: values, binary nodes over them, and binary
\* nodes and parentheses over those
Values == {Number(n) : n \in (-1)..MaxNumber} \cup {Label(l) : l \in LabelNames}
BinaryOver(L, R) == {Binary(o, l, r) : o \in Operations, l \in L, r \in R}
Shallow(V) == V \cup BinaryOver(V, V)
Exprs(V) ==
    Shallow(V) \cup {Paren(e) : e \in Shallow(V)}
               \cup BinaryOver(Shallow(V), V) \cup BinaryOver(V, Shallow(V))

\* expr.evaluate(labels, current_line) is called and returns
evaluate_called(expr, labels, current_line) ==
    /\ last_call' = [fn |-> "evaluate", arg |-> <<expr, labels, current_line>>,
                     ret |-> evaluate(expr, labels, current_line)]
    /\ UNCHANGED <<warriors, separation, offsets, metadata, overflow_checks, read_distance, write_distance, instructions, task_queues,
                   current_queue, total_instructions, living_warriors_count, executed,
                   enqueued, kills, status, visual_vars>>

\* evaluate is pure, so one call in a behaviour stands for every call
NextEvaluate ==
    /\ last_call.fn = "default"
    /\ \E expr \in Exprs(Values), current_line \in 0..MaxLine :
          evaluate_called(expr, LabelTable, current_line)

SpecEvaluate == InitBuilder /\ [][NextEvaluate]_vars

---------------------------------------------------------------------------
(* get_starting_line (warrior.rs): the start offset of a warrior from its  *)
(* ORG statements, in source order, the expression of END being the last.  *)

\* get_starting_line: `starting_line as usize` keeps the low bits of the i64
get_starting_line(orgs, labels) ==
    IF orgs = <<>>
    THEN Ok(1)
    ELSE LET starting_line == evaluate(orgs[Len(orgs)], labels, 0)
         IN  IF starting_line.kind = "Ok" THEN Ok(Wrap(starting_line.val)) ELSE starting_line

\* get_starting_line(orgs, labels) is called and returns
get_starting_line_called(orgs, labels) ==
    /\ last_call' = [fn |-> "get_starting_line", arg |-> <<orgs, labels>>,
                     ret |-> get_starting_line(orgs, labels)]
    /\ UNCHANGED <<warriors, separation, offsets, metadata, overflow_checks, read_distance, write_distance, instructions, task_queues,
                   current_queue, total_instructions, living_warriors_count, executed,
                   enqueued, kills, status, visual_vars>>

\* get_starting_line is pure, so one call in a behaviour stands for every call
NextStartingLine ==
    /\ last_call.fn = "default"
    /\ \E orgs \in SeqsOf(Values, 0, MaxOrgs) : get_starting_line_called(orgs, LabelTable)

SpecStartingLine == InitBuilder /\ [][NextStartingLine]_vars

---------------------------------------------------------------------------
(* Metadata::insert_value (warrior.rs), applied to a fresh record.         *)

MetadataValue(kind, text) == [kind |-> kind, text |-> text]

\* the values of the metadata lines: two names, one author, date and version, and three
\* strategy lines
MetadataValues ==
    {MetadataValue("Name", "Dwarf"), MetadataValue("Name", "Imp"),
     MetadataValue("Author", "A. K. Dewdney"), MetadataValue("Date", "April 29, 1993"),
     MetadataValue("Version", "94.1"), MetadataValue("Strategy", "Bombs every"),
     MetadataValue("Strategy", "fourth instruction."), MetadataValue("Strategy", "")}

\* the macro insert_once: Err(error) if the field is Some, the field set otherwise
insert_once(md, field, value, error) ==
    IF md[field] # <<>>
    THEN [metadata |-> md, ret |-> [kind |-> error]]
    ELSE [metadata |-> [md EXCEPT ![field] = <<value>>], ret |-> [kind |-> "Ok"]]

\* the arm MetadataValue::Strategy: the text is extended by '\n' and the new line if
\* there is one, and then self.strategy = Some(String::from(strategy)) in every case
insert_strategy(md, strategy) ==
    LET pushed == IF md.strategy # <<>>
                  THEN [md EXCEPT !.strategy = <<md.strategy[1] \o <<"\n", strategy>>>>]
                  ELSE md
    IN  [pushed EXCEPT !.strategy = <<<<strategy>>>>]

\* Metadata::insert_value: the record after the call and the value returned
insert_value_result(md, line) ==
    CASE line.kind = "Author" ->
            insert_once(md, "author", <<line.text>>, "DuplicateAuthorDefinition")
      [] line.kind = "Date" ->
            insert_once(md, "date", <<line.text>>, "DuplicateDateDefinition")
      [] line.kind = "Version" ->
            insert_once(md, "version", <<line.text>>, "DuplicateVersionDefinition")
      [] line.kind = "Name" ->
            insert_once(md, "name", <<line.text>>, "DuplicateNameDefinition")
      [] line.kind = "Strategy" ->
            [metadata |-> insert_strategy(md, line.text), ret |-> [kind |-> "Ok"]]

\* metadata.insert_value(line); last_call.arg lists the values applied to the record
insert_value(line) ==
    /\ last_call.fn \in {"default", "insert_value"}
    /\ Len(last_call.arg) < MaxMetadataValues
    /\ metadata' = insert_value_result(metadata, line).metadata
    /\ last_call' = [fn |-> "insert_value", arg |-> Append(last_call.arg, line),
                     ret |-> insert_value_result(metadata, line).ret]
    /\ UNCHANGED <<warriors, separation, offsets, overflow_checks, read_distance, write_distance, instructions, task_queues,
                   current_queue, total_instructions, living_warriors_count, executed,
                   enqueued, kills, status, visual_vars>>

NextMetadata == \E line \in MetadataValues : insert_value(line)

SpecMetadata == InitBuilder /\ [][NextMetadata]_vars

---------------------------------------------------------------------------
(* Warrior::from_lines (warrior.rs) on the lines the parser returns        *)
(* (parser/line.rs): the lines of the source, then the expression of END.  *)

\* the variants of Line; the operation and the modes of an instruction line are fixed
LineInstruction(label_list, field_a, field_b) ==
    [line |-> "Instruction", label_list |-> label_list, field_a |-> field_a,
     field_b |-> field_b]
LineComment == [line |-> "Comment"]
LineOrgStatement(expr) == [line |-> "OrgStatement", expr |-> expr]
LineMetadataStatement(value) == [line |-> "MetadataStatement", value |-> value]

\* lines: the parsed lines, and Line::OrgStatement(val) pushed after them if END has an
\* expression (end is <<>> for None and <<val>> for Some(val))
lines(list, end) ==
    IF end # <<>> THEN Append(list, LineOrgStatement(end[1])) ELSE list

\* lines_by_type: the instructions, the ORG expressions and the metadata values, each
\* in the order of the lines, every other line skipped
lines_by_type(ls) ==
    LET IsInstruction(l) == l.line = "Instruction"
        IsOrg(l) == l.line = "OrgStatement"
        IsMetadata(l) == l.line = "MetadataStatement"
        org_lines == SelectSeq(ls, IsOrg)
        metadata_lines == SelectSeq(ls, IsMetadata)
    IN  [instructions |-> SelectSeq(ls, IsInstruction),
         org_statements |-> [k \in 1..Len(org_lines) |-> org_lines[k].expr],
         metadata |-> [k \in 1..Len(metadata_lines) |-> metadata_lines[k].value]]

\* a faulty insertion: a label defined before is silently redefined
insert_label_overwriting(definitions, label, index) ==
    Ok([l \in DOMAIN definitions \cup {label} |->
           IF l = label THEN index ELSE definitions[l]])

\* the body of the inner loop of get_label_definitions: Err if the key is in the map,
\* definitions.insert(label, index) otherwise
insert_label(definitions, label, index) ==
    IF label \in DOMAIN definitions
    THEN [kind |-> "DuplicateLabelDefinition", name |-> label]
    ELSE Ok([l \in DOMAIN definitions \cup {label} |->
                IF l = label THEN index ELSE definitions[l]])

\* the loops of get_label_definitions from label j of instruction k on (k counts from 1,
\* the index inserted is the zero-based k - 1)
RECURSIVE label_definitions_from(_, _, _, _)
label_definitions_from(instrs, k, j, definitions) ==
    IF k > Len(instrs) THEN Ok(definitions)
    ELSE IF j > Len(instrs[k].label_list)
    THEN label_definitions_from(instrs, k + 1, 1, definitions)
    ELSE LET inserted == insert_label(definitions, instrs[k].label_list[j], k - 1)
         IN  IF inserted.kind # "Ok" THEN inserted
             ELSE label_definitions_from(instrs, k, j + 1, inserted.val)

\* get_label_definitions, from an empty HashMap
get_label_definitions(instrs) == label_definitions_from(instrs, 1, 1, <<>>)

\* Instruction::from_instruction: the A field is evaluated, then the B field, `?`
\* returning the first error
Instruction_from_instruction(instruction, labels, current_line) ==
    LET addr_a == evaluate(instruction.field_a, labels, current_line)
        addr_b == evaluate(instruction.field_b, labels, current_line)
    IN  IF addr_a.kind # "Ok" THEN addr_a
        ELSE IF addr_b.kind # "Ok" THEN addr_b
        ELSE Ok(Instruction("DAT", "F", "Direct", addr_a.val, "Direct", addr_b.val))

\* the loop of from_lines over the metadata values, from value k on
RECURSIVE insert_values_from(_, _, _)
insert_values_from(values, k, md) ==
    IF k > Len(values) THEN [kind |-> "Ok", val |-> md]
    ELSE LET inserted == insert_value_result(md, values[k])
         IN  IF inserted.ret.kind # "Ok"
             THEN [kind |-> "BadMetadata", error |-> inserted.ret.kind]
             ELSE insert_values_from(values, k + 1, inserted.metadata)

\* the collect() of from_lines: the first error of from_instruction, the instructions
\* otherwise
collect_instructions(instrs, labels) ==
    LET resolved == [k \in 1..Len(instrs) |-> Instruction_from_instruction(instrs[k], labels, k - 1)]
        failed == {k \in 1..Len(instrs) : resolved[k].kind # "Ok"}
    IN  IF failed # {}
        THEN resolved[CHOOSE k \in failed : \A other \in failed : k <= other]
        ELSE Ok([k \in 1..Len(instrs) |-> resolved[k].val])

\* Warrior::from_lines
from_lines(ls) ==
    LET by_type == lines_by_type(ls)
        md == insert_values_from(by_type.metadata, 1, new_metadata)
        definitions == get_label_definitions(by_type.instructions)
        starts_at_line == get_starting_line(by_type.org_statements, definitions.val)
        resolved == collect_instructions(by_type.instructions, definitions.val)
    IN  IF md.kind # "Ok" THEN md
        ELSE IF definitions.kind # "Ok" THEN definitions
        ELSE IF starts_at_line.kind # "Ok" THEN starts_at_line
        ELSE IF resolved.kind # "Ok" THEN resolved
        ELSE Ok([instructions |-> resolved.val, metadata |-> md.val,
                 starts_at_line |-> starts_at_line.val])

\* the label lists of the instruction lines
LabelLists == {<<>>, <<"hello">>, <<"world">>, <<"hello", "world">>, <<"hello", "hello">>}

\* the lines of the sources: instruction lines with and without labels, ORG statements,
\* comments and metadata
InstructionLines ==
    {LineInstruction(label_list, field_a, Number(0)) :
        label_list \in LabelLists, field_a \in {Number(1), Label("world")}}
SourceLines ==
    InstructionLines
      \cup {LineOrgStatement(expr) : expr \in {Number(0), Number(MaxNumber), Label("hello")}}
      \cup {LineComment, LineMetadataStatement(MetadataValue("Name", "Dwarf"))}

\* the expressions END may carry
EndExprs == {<<>>, <<Number(1)>>, <<Label("world")>>}

\* get_label_definitions(&instructions) is called and returns
get_label_definitions_called(instrs) ==
    /\ last_call' = [fn |-> "get_label_definitions", arg |-> <<instrs>>,
                     ret |-> get_label_definitions(instrs)]
    /\ UNCHANGED <<warriors, separation, offsets, metadata, overflow_checks, read_distance, write_distance, instructions, task_queues,
                   current_queue, total_instructions, living_warriors_count, executed,
                   enqueued, kills, status, visual_vars>>

\* Warrior::from_lines is called with the lines parsed from a source and returns
from_lines_called(list, end) ==
    /\ last_call' = [fn |-> "from_lines", arg |-> <<list, end>>,
                     ret |-> from_lines(lines(list, end))]
    /\ UNCHANGED <<warriors, separation, offsets, metadata, overflow_checks, read_distance, write_distance, instructions, task_queues,
                   current_queue, total_instructions, living_warriors_count, executed,
                   enqueued, kills, status, visual_vars>>

\* both are pure, so one call in a behaviour stands for every call
NextFromLines ==
    /\ last_call.fn = "default"
    /\ \/ \E instrs \in SeqsOf(InstructionLines, 0, MaxSourceLines) :
             get_label_definitions_called(instrs)
       \/ \E list \in SeqsOf(SourceLines, 0, MaxSourceLines), end \in EndExprs :
             from_lines_called(list, end)

SpecFromLines == InitBuilder /\ [][NextFromLines]_vars

---------------------------------------------------------------------------
(* replace_definitions (parser/mod.rs). A text is the sequence of its      *)
(* characters; a source line carries its text and, for a definition line,  *)
(* the label and the expression text the parser returns for it.            *)

\* str::replace: every non-overlapping match of from, left to right, replaced by to
RECURSIVE replace(_, _, _)
replace(s, from, to) ==
    IF Len(s) < Len(from) THEN s
    ELSE IF SubSeq(s, 1, Len(from)) = from
    THEN to \o replace(SubSeq(s, Len(from) + 1, Len(s)), from, to)
    ELSE <<s[1]>> \o replace(Tail(s), from, to)

\* str::trim, the white space of the texts being the space character
RECURSIVE trim(_)
trim(s) ==
    IF s # <<>> /\ s[1] = " " THEN trim(Tail(s))
    ELSE IF s # <<>> /\ s[Len(s)] = " " THEN trim(SubSeq(s, 1, Len(s) - 1))
    ELSE s

\* a line the parser returns as Line::Definition(label, def): label, EQU, and def up
\* to the comment or the end of the line
DefinitionLine(label, def, comment) ==
    [text |-> label \o <<" ", "E", "Q", "U", " ">> \o def \o comment,
     definition |-> <<[label |-> label, def |-> def]>>, comment |-> comment]

\* a line the parser returns as Line::Instruction: JMP and one operand
JmpLine(operand, comment) ==
    [text |-> <<"J", "M", "P", " ">> \o operand \o comment,
     definition |-> <<>>, comment |-> comment]

\* the lines of the sources: x and y are defined; they are used alone, inside a longer
\* identifier and inside a comment
TextLines ==
    {DefinitionLine(<<"x">>, <<"4">>, <<>>),
     DefinitionLine(<<"y">>, <<"1", " ">>, <<";", "y">>),
     JmpLine(<<"x">>, <<>>), JmpLine(<<"y">>, <<>>),
     JmpLine(<<"x", "2">>, <<>>), JmpLine(<<"a", "x">>, <<>>),
     JmpLine(<<"0">>, <<" ", ";", "x">>)}

\* the text of a source: its lines, each ended by a line feed, and END
RECURSIVE TextOf(_)
TextOf(source) ==
    IF source = <<>> THEN <<"E", "N", "D">>
    ELSE source[1].text \o <<"\n">> \o TextOf(Tail(source))

\* lines(s): the Line::Definition values among the lines parsed, in order
Definitions(source) ==
    LET IsDefinition(l) == l.definition # <<>>
        definition_lines == SelectSeq(source, IsDefinition)
    IN  [k \in 1..Len(definition_lines) |-> definition_lines[k].definition[1]]

\* the loop of replace_definitions from definition k on
RECURSIVE replace_from(_, _, _)
replace_from(replaced, ls, k) ==
    IF k > Len(ls) THEN replaced
    ELSE replace_from(replace(replaced, ls[k].label, trim(ls[k].def)), ls, k + 1)

\* replace_definitions, on a text that parses
replace_definitions(source) == Ok(replace_from(TextOf(source), Definitions(source), 1))

\* replace_definitions(s) is called with the text of a source and returns
replace_definitions_called(source) ==
    /\ last_call' = [fn |-> "replace_definitions", arg |-> <<source>>,
                     ret |-> replace_definitions(source)]
    /\ UNCHANGED <<warriors, separation, offsets, metadata, overflow_checks, read_distance, write_distance, instructions, task_queues,
                   current_queue, total_instructions, living_warriors_count, executed,
                   enqueued, kills, status, visual_vars>>

\* replace_definitions is pure, so one call in a behaviour stands for every call
NextReplace ==
    /\ last_call.fn = "default"
    /\ \E source \in SeqsOf(TextLines, 0, MaxTextLines) : replace_definitions_called(source)

SpecReplace == InitBuilder /\ [][NextReplace]_vars

---------------------------------------------------------------------------
(* CoreBuilder::build with Separation::Random.                             *)

\* get_valid_address: the closure diff
diff(x, y, core_size) == IF x > y THEN x - y ELSE ((core_size - 1) + y) - x

\* get_valid_address: the candidate is resampled (continue 'outer)
too_close(address, offset, minimum_separation, instruction_limit, core_size) ==
    LET lb == diff(address + instruction_limit, offset, core_size)
        ub == diff(offset + instruction_limit, address, core_size)
    IN  (lb <= minimum_separation) \/ (ub <= minimum_separation)

\* get_valid_address: the addresses the loop can return, address being drawn from
\* 0 .. core_size - 1 until no earlier offset is too close (it never returns if none is left)
get_valid_address(offs, minimum_separation, instruction_limit, core_size) ==
    {address \in 0..(core_size - 1) :
        \A k \in 1..Len(offs) :
            ~too_close(address, offs[k], minimum_separation, instruction_limit, core_size)}

\* random_offsets: the lists of offsets it can return for n warriors
RECURSIVE random_offsets(_, _, _, _)
random_offsets(n, minimum_separation, instruction_limit, core_size) ==
    IF n = 0
    THEN {<<>>}
    ELSE UNION {{Append(offs, address) :
                    address \in get_valid_address(offs, minimum_separation,
                                                  instruction_limit, core_size)} :
                offs \in random_offsets(n - 1, minimum_separation, instruction_limit,
                                        core_size)}

\* for (i, (offset, warrior)) in offsets.iter().enumerate() { ... }
RECURSIVE BuildRandom(_, _, _, _, _)
BuildRandom(ws, offs, i, mem, warrior_offsets) ==
    IF i > Len(ws)
    THEN [mem |-> mem, warrior_offsets |-> warrior_offsets]
    ELSE LET loaded == LoadInstructions(mem, offs[i], ws[i].instructions, 1)
         IN  BuildRandom(ws, offs, i + 1, loaded.mem,
                         Append(warrior_offsets,
                                fold(ws[i].starts_at_line + offs[i], CoreSize, CoreSize)))

\* the lists load_warriors is given before a build with random separation
RandomMatches == {<<c>> \o o : c \in Library, o \in SeqsOf(Opponents, 0, MaxOpponents)}

InitRandom ==
    /\ warriors \in RandomMatches
    /\ load_warriors_ok(warriors)
    /\ overflow_checks \in BOOLEAN
    /\ read_distance = ReadDistance
    /\ write_distance = WriteDistance
    /\ metadata = new_metadata
    /\ InitVisual
    /\ \E m \in 0..MaxMinimumSeparation :
          separation = [kind |-> "Random", separation |-> m]
    /\ last_call = [fn |-> "load_warriors", arg |-> warriors,
                    ret |-> load_warriors_return(warriors, 1)]
    /\ offsets \in random_offsets(Len(warriors), separation.separation, InstructionLimit,
                                  CoreSize)
    /\ LET built == BuildRandom(warriors, offsets, 1,
                                [c \in 0..(CoreSize - 1) |->
                                    from_instruction(DefaultInstruction, 0, CoreSize)],
                                <<>>)
       IN  /\ instructions = built.mem
           /\ task_queues = InitialQueues(built.warrior_offsets)
           /\ enqueued = InitialQueues(built.warrior_offsets)
    /\ current_queue = 0
    /\ total_instructions = 0
    /\ living_warriors_count = Len(warriors)
    /\ status = "Continue"
    /\ executed = <<>>
    /\ kills = [i \in 0..(Len(warriors) - 1) |-> 0]

SpecRandom == InitRandom /\ [][Next]_vars

---------------------------------------------------------------------------
(* Properties of the engine.                                               *)

\* the warriors of the match, by their index in task_queues
WarriorIds == DOMAIN task_queues

\* the entries of executed that belong to warrior w, in order
ExecutedBy(w) ==
    LET Mine(e) == e[1] = w
    IN  SelectSeq(executed, Mine)

\* warrior w has executed an SPL
HasSplit(w) == \E k \in 1..Len(executed) : executed[k][1] = w /\ executed[k][3] = "SPL"

\* the warriors whose task queue holds a task
NonEmpty == {w \in WarriorIds : task_queues[w] # <<>>}

\* run_once returned GameOver from the empty-queue arm (the other GameOver leaves the
\* count of living warriors as it was, and that count is at least 1 while run goes on)
GameOverByDeath == status = "GameOver" /\ living_warriors_count = 0

\* run_once returned GameOver from the test of total_instructions
GameOverByLimit == status = "GameOver" /\ living_warriors_count > 0

\* C1: every program counter stored in a task queue lies in 0 .. core_size - 1, the
\* successor of a task at the last cell included (it is pushed reduced modulo core_size).
C1_TaskPCsInCore ==
    \A w \in WarriorIds :
        \A k \in 1..Len(task_queues[w]) : task_queues[w][k] \in 0..(CoreSize - 1)

\* C2: scheduling is strict round-robin and FIFO.  Between two consecutive tasks of one
\* warrior every other warrior runs exactly one task (a warrior found dead stops the
\* rotation in this engine, so all warriors are live whenever a task runs); and a
\* warrior's tasks run in the order in which their PCs were pushed: the PCs it has run
\* are the first PCs ever pushed on its queue, in order, and its queue is the rest.
C2_RoundRobinFifo ==
    /\ \A i, j \in 1..Len(executed) :
          ( /\ i < j
            /\ executed[i][1] = executed[j][1]
            /\ \A k \in (i + 1)..(j - 1) : executed[k][1] # executed[i][1] )
          => \A v \in WarriorIds \ {executed[i][1]} :
                Cardinality({k \in (i + 1)..(j - 1) : executed[k][1] = v}) = 1
    /\ \A w \in WarriorIds :
          LET ran == ExecutedBy(w)
          IN  /\ Len(ran) <= Len(enqueued[w])
              /\ \A k \in 1..Len(ran) : ran[k][2] = enqueued[w][k]
              /\ task_queues[w] = SubSeq(enqueued[w], Len(ran) + 1, Len(enqueued[w]))

\* C2 witness: in a match of two or more warriors, a warrior that has split has run
\* three tasks, the last of them one that its SPL pushed.
C2_Witness ==
    /\ Len(warriors) >= 2
    /\ \E w \in WarriorIds :
          /\ HasSplit(w)
          /\ Len(ExecutedBy(w)) >= 3
          /\ Len(enqueued[w]) >= 4

\* C3: a warrior whose queue is empty at its turn is killed exactly once, the living
\* count dropping by one for it and never again, and GameOver is declared on this path
\* only when no other warrior remains in play.
C3_KilledExactlyOnce ==
    /\ \A w \in WarriorIds : kills[w] <= 1
    /\ living_warriors_count = Len(warriors) - Cardinality({w \in WarriorIds : kills[w] > 0})
    /\ GameOverByDeath => NonEmpty = {}

\* C4: a match of two or more warriors ends as soon as exactly one warrior remains
\* alive, its queue still holding a task; and when the match has ended before the limit
\* with one warrior still holding tasks, that warrior is the one left to win.
C4_LastSurvivorWins ==
    Len(warriors) >= 2 =>
        /\ (living_warriors_count = 1 /\ Cardinality(NonEmpty) = 1) => status = "GameOver"
        /\ (status = "GameOver" /\ total_instructions <= InstructionLimit
                /\ Cardinality(NonEmpty) = 1)
              => living_warriors_count = 1

\* C5: when deaths do not end the match first, run ends exactly when the cycle counter
\* reaches cycles_before_tie: it goes on below that count and has ended at it.
C5_TieAtCyclesBeforeTie ==
    /\ status = "Continue" => total_instructions < CyclesBeforeTie
    /\ GameOverByLimit => total_instructions = CyclesBeforeTie

\* C6: at GameOver the outcome is Win(w) exactly when one warrior w still has a task,
\* and otherwise Draw of the warriors still alive: the warriors the engine counts as
\* living at GameOver are the warriors whose queue is not empty.
C6_OutcomeCountsSurvivors ==
    status = "GameOver" => living_warriors_count = Cardinality(NonEmpty)

\* C7: no task queue is ever longer than maximum_number_of_tasks.
C7_QueueWithinTaskCap ==
    \A w \in WarriorIds : Len(task_queues[w]) <= MaximumNumberOfTasks

\* C8: an SPL run at PC appends PC+1 (mod core_size) and then the A operand's effective
\* pointer sp, in that order, to the queue of the warrior that runs it.
C8_SplPushesNextThenSourcePtr ==
    [][ ( /\ status = "Continue"
          /\ TaskRuns
          /\ RunTask(instructions, Head(CurrentQueue)).ir.opcode = "SPL" )
        => LET task == Head(CurrentQueue)
               r    == RunTask(instructions, task)
           IN  task_queues'[current_queue]
                 = Tail(CurrentQueue) \o <<(task + 1) % CoreSize, r.source_ptr>> ]_vars

\* C9: a step that runs an opcode other than SPL pops one PC of the current queue and
\* appends at most one, so the queue is no longer after the step than before; a step
\* that runs DAT appends none.
C9_OnlySplCreatesTasks ==
    [][ ( /\ status = "Continue"
          /\ TaskRuns
          /\ RunTask(instructions, Head(CurrentQueue)).ir.opcode # "SPL" )
        => LET opcode == RunTask(instructions, Head(CurrentQueue)).ir.opcode
               before == task_queues[current_queue]
               after  == task_queues'[current_queue]
           IN  /\ Len(after) <= Len(before)
               /\ \E pushed \in {<<>>} \cup {<<pc>> : pc \in 0..UsizeMod} :
                     after = Tail(before) \o pushed
               /\ opcode = "DAT" => after = Tail(before) ]_vars

\* C9 witness: a warrior has run a task that is no SPL and pushed its successor, and then
\* a DAT, after which its queue is empty.
C9_Witness ==
    \E w \in WarriorIds :
        /\ Len(ExecutedBy(w)) = 2
        /\ ExecutedBy(w)[1][3] \notin {"SPL", "DAT"}
        /\ ExecutedBy(w)[2][3] = "DAT"
        /\ task_queues[w] = <<>>

\* C10: the queue of a warrior that has never run an SPL holds exactly one task until it
\* is empty for the first time, and from then on it stays empty.
C10_SingleTaskWithoutSpl ==
    /\ [](\A w \in WarriorIds : ~HasSplit(w) => Len(task_queues[w]) <= 1)
    /\ [][ \A w \in WarriorIds :
              (~HasSplit(w)' /\ task_queues[w] = <<>>) => task_queues'[w] = <<>> ]_vars

\* C10 witness: a warrior that never split has run its task with one task queued, its
\* queue is empty now and was found empty at two turns, while another warrior has split
\* and holds several tasks.
C10_Witness ==
    \E w, v \in WarriorIds :
        /\ ~HasSplit(w)
        /\ Len(ExecutedBy(w)) >= 1
        /\ task_queues[w] = <<>>
        /\ kills[w] >= 2
        /\ HasSplit(v)
        /\ Len(task_queues[v]) >= 2

\* the divisor the modifier selects from the source register is zero
DivisorIsZero(modifier, sr) ==
    CASE modifier \in {"A", "AB"} -> sr.addr_a = 0
      [] modifier \in {"B", "BA"} -> sr.addr_b = 0
      [] OTHER -> sr.addr_a = 0 \/ sr.addr_b = 0

\* the task at the front of the current queue is a DIV or a MOD whose divisor is zero
DividesByZero ==
    /\ status = "Continue"
    /\ CurrentQueue # <<>>
    /\ Head(CurrentQueue) < CoreSize
    /\ LET r == RunTask(instructions, Head(CurrentQueue))
       IN  /\ r.ir.opcode \in {"DIV", "MOD"}
           /\ DivisorIsZero(r.ir.modifier, r.sr)

\* C11: a DIV or MOD whose divisor is zero is a normal step: it does not fault, the task
\* is removed from its queue without a successor, the cycle is counted and the turn
\* passes to the next warrior.
C11_DivideByZeroKillsTask ==
    [][ DividesByZero
        => /\ status' # "Panic"
           /\ task_queues' = [task_queues EXCEPT ![current_queue] = Tail(@)]
           /\ total_instructions' = total_instructions + 1
           /\ current_queue' = NextQueue(current_queue) ]_vars

\* C12: the A-address and the B-address of every core cell lie in 0 .. core_size - 1, right
\* after the load and after every step (copies, arithmetic, DJN, and the pre-decrement
\* and post-increment side effects of the operands).
C12_CellAddressesInCore ==
    \A c \in DOMAIN instructions :
        /\ instructions[c].addr_a \in 0..(CoreSize - 1)
        /\ instructions[c].addr_b \in 0..(CoreSize - 1)

\* the number of cells from cell a forward round the ring to cell b
CircularGap(a, b) == (b - a) % CoreSize

\* C13: after a build with Random(m) separation, any two distinct warriors are placed
\* more than m cells apart in both directions of the ring.
C13_RandomPlacementsApart ==
    separation.kind = "Random" =>
        \A i, j \in 1..Len(offsets) :
            i # j => CircularGap(offsets[i], offsets[j]) > separation.separation

\* C14: after a build with Fixed(k) separation the first warrior is loaded at cell 0 and
\* every later warrior's first instruction lies exactly k cells (modulo core_size) after
\* the first instruction of the warrior loaded before it, whatever that warrior's length.
C14_FixedSeparationBetweenStarts ==
    separation.kind = "Fixed" =>
        /\ offsets[1] = 0
        /\ \A i \in 2..Len(offsets) :
              offsets[i] = (offsets[i - 1] + separation.separation) % CoreSize

\* the state build returns: no task has run and no queue has been found empty
JustBuilt == executed = <<>> /\ \A w \in WarriorIds : kills[w] = 0

\* C15: right after build there is one task queue per loaded warrior, in load order,
\* each holding exactly one PC, the warrior's placement offset plus its start offset
\* modulo core_size, and the cycle counter is 0.
C15_InitialQueues ==
    JustBuilt =>
        /\ DOMAIN task_queues = 0..(Len(warriors) - 1)
        /\ \A i \in 1..Len(warriors) :
              task_queues[i - 1] = <<(offsets[i] + warriors[i].starts_at_line) % CoreSize>>
        /\ total_instructions = 0

\* C15 witness: a core just built with two warriors at different cells, one of them
\* starting past the end of the core so that its PC wraps.
C15_Witness ==
    /\ JustBuilt
    /\ Len(warriors) = 2
    /\ offsets[1] # offsets[2]
    /\ \E i \in 1..2 : offsets[i] + warriors[i].starts_at_line >= CoreSize
    /\ task_queues[0] # task_queues[1]

\* the warriors of the list ws that load_warriors refuses
TooLong(ws) == {i \in 1..Len(ws) : Len(ws[i].instructions) > InstructionLimit}
Empty(ws) == {i \in 1..Len(ws) : Len(ws[i].instructions) = 0}

\* C16: load_warriors returns Ok exactly when every warrior of the list has between 1 and
\* instruction_limit instructions, and then the builder holds the list; otherwise it
\* returns WarriorTooLong(len, limit, name) for a warrior of the list longer than the
\* limit or EmptyWarrior(name) for one without instructions, and the builder's warriors
\* are those it held before the call.
C16_LoadWarriorsAllOrNothing ==
    [][ LET ws  == last_call'.arg
            ret == last_call'.ret
        IN  /\ ret.kind = "Ok" <=> (TooLong(ws) = {} /\ Empty(ws) = {})
            /\ ret.kind = "Ok" => warriors' = ws
            /\ ret.kind # "Ok" =>
                  /\ warriors' = warriors
                  /\ \/ \E i \in TooLong(ws) :
                          ret = [kind |-> "WarriorTooLong", len |-> Len(ws[i].instructions),
                                 limit |-> InstructionLimit, name |-> warrior_name(ws[i])]
                     \/ \E i \in Empty(ws) :
                          ret = [kind |-> "EmptyWarrior", name |-> warrior_name(ws[i])] ]_vars

\* C16 witness: the builder holds two warriors from an earlier call, and the last call,
\* given a good warrior followed by one that is too long, returned WarriorTooLong.
C16_Witness ==
    /\ status = "Builder"
    /\ Len(warriors) = 2
    /\ last_call.ret.kind = "WarriorTooLong"
    /\ Len(last_call.arg) = 2
    /\ Len(last_call.arg[1].instructions) \in 1..InstructionLimit
    /\ last_call.arg # warriors

\* the Core that build returns for the list ws under Fixed separation: the default
\* instruction everywhere, the warriors copied from cell 0 on, one PC per queue
FixedCore(ws) ==
    LET built == BuildFixed(ws, 1, 0,
                            [c \in 0..(CoreSize - 1) |->
                                from_instruction(DefaultInstruction, 0, CoreSize)],
                            <<>>, <<>>)
    IN  [instructions |-> built.mem,
         task_queues |-> [i \in 0..(Len(ws) - 1) |-> <<built.warrior_offsets[i + 1]>>],
         current_queue |-> 0, total_instructions |-> 0,
         living_warriors_count |-> Len(ws), status |-> "Continue"]

C18_FoldIsRemainder ==
    (last_call.fn = "fold" /\ last_call.arg[2] = last_call.arg[3])
        => last_call.ret = last_call.arg[1] % last_call.arg[3]

\* C18 witness: fold was called with the distance equal to the core size on a pointer
\* past twice the core size whose remainder lies in the upper half of the core.
C18_Witness ==
    /\ last_call.fn = "fold"
    /\ last_call.arg[2] = last_call.arg[3]
    /\ last_call.arg[1] >= 2 * last_call.arg[3]
    /\ last_call.arg[1] % last_call.arg[3] > last_call.arg[3] \div 2
    /\ last_call.ret = last_call.arg[3] - 1

\* the value of the whole expression with every label replaced by its absolute line
\* index: Ok(val), or Undefined when a label is missing or a divisor is zero
RECURSIVE absolute_value(_, _)
absolute_value(expr, labels) ==
    CASE expr.node = "Number" -> Ok(expr.n)
      [] expr.node = "Label" ->
            IF expr.l \in DOMAIN labels THEN Ok(labels[expr.l]) ELSE [kind |-> "Undefined"]
      [] expr.node = "Paren" -> absolute_value(expr.inner, labels)
      [] OTHER ->
            LET left == absolute_value(expr.left, labels)
                right == absolute_value(expr.right, labels)
            IN  IF left.kind # "Ok" \/ right.kind # "Ok" THEN [kind |-> "Undefined"]
                ELSE IF expr.node \in {"Divide", "Modulo"} /\ right.val = 0
                     THEN [kind |-> "Undefined"]
                     ELSE CASE expr.node = "Add" -> Ok(left.val + right.val)
                            [] expr.node = "Subtract" -> Ok(left.val - right.val)
                            [] expr.node = "Multiply" -> Ok(left.val * right.val)
                            [] expr.node = "Divide" -> Ok(TruncDiv(left.val, right.val))
                            [] expr.node = "Modulo" -> Ok(TruncRem(left.val, right.val))

\* C19: evaluate returns the value of the whole expression, labels standing for their
\* absolute line indices, minus current_line when the expression refers to a label
\* anywhere (the offset being applied once, to the final result), and the plain value
\* when it refers to none.
C19_OffsetAppliedOnce ==
    last_call.fn = "evaluate" =>
        LET expr == last_call.arg[1]
            labels == last_call.arg[2]
            current_line == last_call.arg[3]
            whole == absolute_value(expr, labels)
        IN  whole.kind = "Ok" =>
                last_call.ret = Ok(IF refers_to_label(expr)
                                   THEN whole.val - current_line ELSE whole.val)

\* C20: evaluate never faults; a `/` or a `%` whose right operand evaluates to zero makes
\* it return DivideByZero, and a reference to a label that is not in the table makes it
\* return UndefinedLabel(name).
C20_ErrorsAreValues ==
    last_call.fn = "evaluate" =>
        LET expr == last_call.arg[1]
            labels == last_call.arg[2]
            current_line == last_call.arg[3]
        IN  /\ last_call.ret.kind # "Panic"
            /\ ( /\ expr.node \in {"Divide", "Modulo"}
                 /\ evaluate(expr.left, labels, current_line).kind = "Ok"
                 /\ evaluate(expr.right, labels, current_line) = Ok(0) )
               => last_call.ret = [kind |-> "DivideByZero"]
            /\ (expr.node = "Label" /\ expr.l \notin DOMAIN labels)
               => last_call.ret = [kind |-> "UndefinedLabel", name |-> expr.l]

\* C21: the start offset is 0 when the source has no ORG statement (and END carries no
\* expression), and otherwise the value of the last ORG statement in source order.
C21_StartOffsetFromLastOrg ==
    last_call.fn = "get_starting_line" =>
        LET orgs == last_call.arg[1]
            labels == last_call.arg[2]
        IN  /\ orgs = <<>> => last_call.ret = Ok(0)
            /\ (orgs # <<>> /\ absolute_value(orgs[Len(orgs)], labels).kind = "Ok"
                            /\ absolute_value(orgs[Len(orgs)], labels).val >= 0)
               => last_call.ret = Ok(absolute_value(orgs[Len(orgs)], labels).val)

\* the strategy lines among the values, in order
StrategyLines(values) ==
    LET IsStrategy(v) == v.kind = "Strategy"
        texts == SelectSeq(values, IsStrategy)
    IN  [k \in 1..Len(texts) |-> texts[k].text]

\* the lines joined by newline characters, as the pieces of the text
RECURSIVE JoinedByNewline(_)
JoinedByNewline(texts) ==
    IF Len(texts) = 1
    THEN <<texts[1]>>
    ELSE JoinedByNewline(SubSeq(texts, 1, Len(texts) - 1)) \o <<"\n", texts[Len(texts)]>>

\* the Duplicate...Definition error of a scalar field
DuplicateError(kind) == [kind |-> "Duplicate" \o kind \o "Definition"]

\* C22: after a sequence of values has been applied to a fresh record, the strategy is
\* the text of all strategy values of the sequence, in order, joined by newlines; and a
\* value for name, author, date or version that follows an earlier value for the same
\* field is rejected with that field's Duplicate...Definition error.
C22_StrategyAccumulates ==
    last_call.fn = "insert_value" =>
        LET values == last_call.arg
            last == values[Len(values)]
            texts == StrategyLines(values)
        IN  /\ metadata.strategy = IF texts = <<>> THEN <<>> ELSE <<JoinedByNewline(texts)>>
            /\ ( /\ last.kind # "Strategy"
                 /\ \E k \in 1..(Len(values) - 1) : values[k].kind = last.kind )
               => last_call.ret = DuplicateError(last.kind)

\* the cell the opcode leaves when source and destination are one cell holding pre:
\* the source values are those of pre and so are the destination values
SameCellResult(opcode, modifier, pre) ==
    LET plus(x, y) == fold(Wrap(x + y), write_distance, CoreSize)
        a == pre.addr_a
        b == pre.addr_b
    IN  IF opcode = "MOV"
        THEN CASE modifier = "AB" -> [pre EXCEPT !.addr_b = a]
               [] modifier = "BA" -> [pre EXCEPT !.addr_a = b]
               [] modifier = "X"  -> [pre EXCEPT !.addr_a = b, !.addr_b = a]
               [] OTHER -> pre
        ELSE CASE modifier = "A"  -> [pre EXCEPT !.addr_a = plus(a, a)]
               [] modifier = "B"  -> [pre EXCEPT !.addr_b = plus(b, b)]
               [] modifier = "AB" -> [pre EXCEPT !.addr_b = plus(b, a)]
               [] modifier = "BA" -> [pre EXCEPT !.addr_a = plus(a, b)]
               [] modifier = "X"  -> [pre EXCEPT !.addr_a = plus(a, b), !.addr_b = plus(b, a)]
               [] OTHER -> [pre EXCEPT !.addr_a = plus(a, a), !.addr_b = plus(b, b)]

\* C23: when the source pointer and the destination pointer of a step are the same
\* cell, MOV and ADD leave in it the values computed from the cell's contents before
\* the opcode's first write (MOV.X swaps the two addresses, ADD.F doubles both); and a
\* MOV that replaces the executing instruction by one of another opcode still ends as
\* a MOV: the step is recorded as a MOV and enqueues PC+1 alone.
C23_RegistersAreSnapshots ==
    [][ (status = "Continue" /\ TaskRuns) =>
          LET task == Head(CurrentQueue)
              r    == RunTask(instructions, task)
              dp   == r.destination_ptr
          IN  /\ (r.source_ptr = dp /\ r.ir.opcode \in {"MOV", "ADD"})
                    => instructions'[dp] = SameCellResult(r.ir.opcode, r.ir.modifier, r.dr)
              /\ (r.ir.opcode = "MOV" /\ dp = task)
                    => /\ executed'[Len(executed')] = <<current_queue, task, "MOV">>
                       /\ task_queues'[current_queue] = Tail(CurrentQueue) \o <<task + 1>> ]_vars

\* C23 witness: the MOV.X of Swap, whose source and destination are the cell after it,
\* has run and that cell's addresses 2 and 3 are now 3 and 2.
C23_Witness ==
    /\ warriors[1] = Swap
    /\ executed = <<<<0, 0, "MOV">>>>
    /\ instructions[1].addr_a = 3
    /\ instructions[1].addr_b = 2

\* C24: an operand in Immediate mode has the executing task's own PC as its pointer, at
\* every PC, so its register is the instruction register; and ADD.AB #x, $d adds x to
\* the B-address of the cell d away.
C24_ImmediatePointsAtPc ==
    [][ (status = "Continue" /\ TaskRuns) =>
          LET task == Head(CurrentQueue)
              r    == RunTask(instructions, task)
          IN  /\ r.ir.mode_a = "Immediate" => (r.source_ptr = task /\ r.sr = r.ir)
              /\ r.ir.mode_b = "Immediate" => r.destination_ptr = task
              /\ ( /\ r.ir.opcode = "ADD" /\ r.ir.modifier = "AB"
                   /\ r.ir.mode_a = "Immediate" /\ r.ir.mode_b = "Direct" )
                    => instructions'[r.destination_ptr].addr_b
                         = (r.dr.addr_b + r.ir.addr_a) % CoreSize ]_vars

\* the offset congruent to addr modulo the distance in the window centred on the PC,
\* (-distance/2, distance/2]
WindowOffset(addr, distance) ==
    LET m == addr % distance
    IN  IF m > distance \div 2 THEN m - distance ELSE m

\* C25: with read_distance R a factor of the core size N, a Direct A-operand with
\* address a executed at PC has as its pointer the cell (PC + f) mod N, f being the
\* offset congruent to a modulo R in (-R/2, R/2], for every PC.
C25_ReadWindowCentredOnPc ==
    [][ (status = "Continue" /\ TaskRuns) =>
          LET task == Head(CurrentQueue)
              r    == RunTask(instructions, task)
          IN  r.ir.mode_a = "Direct"
                => r.source_ptr = (task + WindowOffset(r.ir.addr_a, read_distance)) % CoreSize ]_vars

\* cell c lies in the window of the given distance centred on pc: its circular offset
\* from pc is in (-distance/2, distance/2]
InWindow(c, pc, distance) ==
    \E f \in (0 - CoreSize)..CoreSize :
        /\ 2 * f > 0 - distance
        /\ 2 * f <= distance
        /\ (pc + f) % CoreSize = c

\* C26: with write_distance W a factor of the core size, every cell a step executed at
\* PC modifies (the destination of the opcode, and the cells changed by a pre-decrement
\* or a post-increment) lies in the write window of PC, also when read_distance is
\* larger than write_distance.
C26_WritesInsideWriteWindow ==
    [][ (status = "Continue" /\ TaskRuns) =>
          \A c \in DOMAIN instructions :
              instructions'[c] # instructions[c]
                => InWindow(c, Head(CurrentQueue), write_distance) ]_vars

PreDecrementModes == {"AFieldPredecrementIndirect", "BFieldPredecrementIndirect"}

\* the opcodes whose arm writes nothing to the core and does no arithmetic
ReadOnlyOpcodes == {"DAT", "JMP", "JMZ", "JMN", "SEQ", "SNE", "SLT", "SPL", "NOP"}

\* the step of the task at pc, whose operand (mode, addr) is a pre-decrement, does not
\* panic, leaves the field of the intermediate cell at (old value - 1) mod N, and has
\* resolved the operand to ptr, the cell the decremented value designates
PreDecremented(pc, mode, addr, ptr) ==
    LET n   == (pc + addr) % CoreSize
        f   == IndirectField(mode)
        dec == (Field(instructions[n], f) - 1) % CoreSize
    IN  /\ status' # "Panic"
        /\ Field(instructions'[n], f) = dec
        /\ ptr = (n + dec) % CoreSize

\* C27: a pre-decrement operand ({ or <) first replaces the selected field of the
\* intermediate cell by (value - 1) mod N, a field of 0 becoming N-1 without an
\* arithmetic fault, and the pointer is computed from the decremented value (read and
\* write distance being the core size, the other operand Direct and the opcode one that
\* writes nothing itself).
C27_PreDecrementWraps ==
    [][ ( /\ status = "Continue"
          /\ CurrentQueue # <<>>
          /\ Head(CurrentQueue) < CoreSize
          /\ read_distance = CoreSize
          /\ instructions[Head(CurrentQueue)].opcode \in ReadOnlyOpcodes ) =>
          LET task == Head(CurrentQueue)
              ir   == instructions[task]
              r    == RunTask(instructions, task)
          IN  /\ (ir.mode_a \in PreDecrementModes /\ ir.mode_b = "Direct")
                    => PreDecremented(task, ir.mode_a, ir.addr_a, r.source_ptr)
              /\ (ir.mode_a = "Direct" /\ ir.mode_b \in PreDecrementModes)
                    => PreDecremented(task, ir.mode_b, ir.addr_b, r.destination_ptr) ]_vars

PostIncrementModes == {"AFieldPostincrementIndirect", "BFieldPostincrementIndirect"}

\* the step of the task at pc, whose operand (mode, addr) is a post-increment, has
\* resolved the operand to ptr, the cell the old value of the intermediate cell's field
\* designates, and leaves that field at (old value + 1) mod N
PostIncremented(pc, mode, addr, ptr) ==
    LET n   == (pc + addr) % CoreSize
        f   == IndirectField(mode)
        old == Field(instructions[n], f)
    IN  /\ ptr = (n + old) % CoreSize
        /\ Field(instructions'[n], f) = (old + 1) % CoreSize

\* C28: a post-increment operand (} or >) is resolved from the value the field of the
\* intermediate cell had before the step, and after the step that field holds
\* (old value + 1) mod N, a field of N-1 becoming 0 (read and write distance being the
\* core size, the other operand Direct and the opcode one that writes nothing itself).
C28_PostIncrementWraps ==
    [][ ( /\ status = "Continue"
          /\ CurrentQueue # <<>>
          /\ Head(CurrentQueue) < CoreSize
          /\ read_distance = CoreSize
          /\ instructions[Head(CurrentQueue)].opcode \in ReadOnlyOpcodes ) =>
          LET task == Head(CurrentQueue)
              ir   == instructions[task]
              r    == RunTask(instructions, task)
          IN  /\ (ir.mode_a \in PostIncrementModes /\ ir.mode_b = "Direct")
                    => PostIncremented(task, ir.mode_a, ir.addr_a, r.source_ptr)
              /\ (ir.mode_a = "Direct" /\ ir.mode_b \in PostIncrementModes)
                    => PostIncremented(task, ir.mode_b, ir.addr_b, r.destination_ptr) ]_vars

\* x - y in a core of n cells: (x + n - (y mod n)) mod n
subtract(x, y, n) == (x + n - (y % n)) % n

\* the destination cell after SUB with the modifier, from the destination register and
\* the source register
SubResult(modifier, dr, sr) ==
    LET minus(x, y) == subtract(x, y, CoreSize)
    IN  CASE modifier = "A"  -> [dr EXCEPT !.addr_a = minus(dr.addr_a, sr.addr_a)]
          [] modifier = "B"  -> [dr EXCEPT !.addr_b = minus(dr.addr_b, sr.addr_b)]
          [] modifier = "AB" -> [dr EXCEPT !.addr_b = minus(dr.addr_b, sr.addr_a)]
          [] modifier = "BA" -> [dr EXCEPT !.addr_a = minus(dr.addr_a, sr.addr_b)]
          [] modifier = "X"  -> [dr EXCEPT !.addr_a = minus(dr.addr_a, sr.addr_b),
                                           !.addr_b = minus(dr.addr_b, sr.addr_a)]
          [] OTHER -> [dr EXCEPT !.addr_a = minus(dr.addr_a, sr.addr_a),
                                 !.addr_b = minus(dr.addr_b, sr.addr_b)]

\* C29: SUB computes (x + N - (y mod N)) mod N for the fields its modifier selects and
\* never underflows: the step does not panic and leaves those values in the destination
\* cell (both operands Direct, read and write distance the core size).
C29_SubNeverUnderflows ==
    [][ ( /\ status = "Continue"
          /\ CurrentQueue # <<>>
          /\ Head(CurrentQueue) < CoreSize
          /\ read_distance = CoreSize /\ write_distance = CoreSize
          /\ instructions[Head(CurrentQueue)].opcode = "SUB"
          /\ instructions[Head(CurrentQueue)].mode_a = "Direct"
          /\ instructions[Head(CurrentQueue)].mode_b = "Direct" ) =>
          LET r == RunTask(instructions, Head(CurrentQueue))
          IN  /\ status' # "Panic"
              /\ instructions'[r.destination_ptr] = SubResult(r.ir.modifier, r.dr, r.sr) ]_vars

\* the destination cell after DJN's decrement of the fields the modifier selects
DjnResult(modifier, dr) ==
    LET minus1(x) == (x + CoreSize - 1) % CoreSize
    IN  CASE modifier \in {"A", "BA"} -> [dr EXCEPT !.addr_a = minus1(dr.addr_a)]
          [] modifier \in {"B", "AB"} -> [dr EXCEPT !.addr_b = minus1(dr.addr_b)]
          [] OTHER -> [dr EXCEPT !.addr_a = minus1(dr.addr_a), !.addr_b = minus1(dr.addr_b)]

\* the program counters DJN may enqueue, given the decremented cell: sp if the selected
\* fields are all non-zero, PC+1 if they are all zero
DjnTargets(modifier, cell, sp, pc) ==
    LET selected == CASE modifier \in {"A", "BA"} -> {cell.addr_a}
                      [] modifier \in {"B", "AB"} -> {cell.addr_b}
                      [] OTHER -> {cell.addr_a, cell.addr_b}
    IN  IF 0 \notin selected THEN {sp}
        ELSE IF selected = {0} THEN {pc + 1}
        ELSE {sp, pc + 1}

\* C30: DJN first decrements in the core the destination cell's fields its modifier
\* selects (A for .A/.BA, B for .B/.AB, both for .F/.X/.I), a field of 0 becoming N-1,
\* and then enqueues sp if the selected decremented fields are non-zero and PC+1 if they
\* are zero (both operands Direct, read and write distance the core size).
C30_DjnDecrementsThenJumps ==
    [][ ( /\ status = "Continue"
          /\ CurrentQueue # <<>>
          /\ Head(CurrentQueue) < CoreSize
          /\ read_distance = CoreSize /\ write_distance = CoreSize
          /\ instructions[Head(CurrentQueue)].opcode = "DJN"
          /\ instructions[Head(CurrentQueue)].mode_a = "Direct"
          /\ instructions[Head(CurrentQueue)].mode_b = "Direct" ) =>
          LET task == Head(CurrentQueue)
              r    == RunTask(instructions, task)
              cell == DjnResult(r.ir.modifier, r.dr)
          IN  /\ status' # "Panic"
              /\ instructions'[r.destination_ptr] = cell
              /\ \E pc \in DjnTargets(r.ir.modifier, cell, r.source_ptr, task) :
                    task_queues'[current_queue] = Tail(CurrentQueue) \o <<pc>> ]_vars

\* C31: SEQ.I enqueues PC+2 if and only if the source and the destination register are
\* equal as whole instructions (opcode, modifier, both modes, both addresses), and PC+1
\* otherwise; SNE.I enqueues PC+2 if and only if they differ in one of the six.
C31_WholeInstructionCompare ==
    [][ ( /\ status = "Continue"
          /\ TaskRuns
          /\ instructions[Head(CurrentQueue)].opcode \in {"SEQ", "SNE"}
          /\ instructions[Head(CurrentQueue)].modifier = "I" ) =>
          LET task == Head(CurrentQueue)
              r    == RunTask(instructions, task)
              skip == IF r.ir.opcode = "SEQ" THEN r.sr = r.dr ELSE r.sr # r.dr
          IN  task_queues'[current_queue]
                = Tail(CurrentQueue) \o <<IF skip THEN task + 2 ELSE task + 1>> ]_vars

\* the destination cell after MOV with the modifier: the address fields the modifier
\* selects taken from the source register, the whole register for I
MovResult(modifier, cell, sr) ==
    CASE modifier = "A"  -> [cell EXCEPT !.addr_a = sr.addr_a]
      [] modifier = "B"  -> [cell EXCEPT !.addr_b = sr.addr_b]
      [] modifier = "AB" -> [cell EXCEPT !.addr_b = sr.addr_a]
      [] modifier = "BA" -> [cell EXCEPT !.addr_a = sr.addr_b]
      [] modifier = "F"  -> [cell EXCEPT !.addr_a = sr.addr_a, !.addr_b = sr.addr_b]
      [] modifier = "X"  -> [cell EXCEPT !.addr_a = sr.addr_b, !.addr_b = sr.addr_a]
      [] modifier = "I"  -> sr

\* C32: a MOV step changes nothing in the core but the destination cell, apart from the
\* fields the operands' pre-decrements and post-increments change: A, B, AB and BA
\* assign one address of the destination, F and X both, the opcode, modifier and modes
\* of the destination staying as they were, and I replaces the whole cell.
C32_MovWritesDestinationOnly ==
    [][ ( /\ status = "Continue"
          /\ TaskRuns
          /\ instructions[Head(CurrentQueue)].opcode = "MOV" ) =>
          LET task == Head(CurrentQueue)
              ir   == instructions[task]
              a    == evaluate_operand(instructions, ir.mode_a, ir.addr_a, task)
              b    == evaluate_operand(a.mem, ir.mode_b, ir.addr_b, task)
              sr   == a.mem[a.ptr]
          IN  /\ \A c \in DOMAIN instructions : c # b.ptr => instructions'[c] = b.mem[c]
              /\ instructions'[b.ptr] = MovResult(ir.modifier, b.mem[b.ptr], sr)
              /\ ir.modifier # "I" =>
                    /\ instructions'[b.ptr].opcode = b.mem[b.ptr].opcode
                    /\ instructions'[b.ptr].modifier = b.mem[b.ptr].modifier
                    /\ instructions'[b.ptr].mode_a = b.mem[b.ptr].mode_a
                    /\ instructions'[b.ptr].mode_b = b.mem[b.ptr].mode_b ]_vars

\* C32 witness: the probe MOV.AB $1, $2 has run alone in the core: the cell two ahead
\* still is a DAT.F with Direct modes and A-address 0, its B-address is the source's
\* A-address 2, and the source cell is as it was loaded.
C32_Witness ==
    /\ warriors = <<Probe("MOV", "AB", <<"Direct", "Direct">>)>>
    /\ executed = <<<<0, 0, "MOV">>>>
    /\ instructions[2] = Instruction("DAT", "F", "Direct", 0, "Direct", 2)
    /\ instructions[1] = Instruction("DAT", "F", "Immediate", 2, "Immediate", 3)

\* C33: a step changes no task queue but that of the warrior whose turn it is, and it
\* leaves that one empty if it was empty: a warrior whose queue has become empty never
\* receives a task again, whatever the other warriors execute.
C33_OnlyOwnQueueChanges ==
    [][ \A w \in WarriorIds :
           (w # current_queue \/ task_queues[w] = <<>>)
              => task_queues'[w] = task_queues[w] ]_vars

\* C33 witness: of two warriors the second has run its only task and left its queue
\* empty, the first has executed a task after that and still holds one, and the second
\* has then been found dead at its turn, its queue still empty.
C33_Witness ==
    /\ Len(warriors) = 2
    /\ task_queues[1] = <<>>
    /\ Len(ExecutedBy(1)) = 1
    /\ executed[Len(executed)][1] = 0
    /\ kills[1] >= 1
    /\ task_queues[0] # <<>>

\* C34: run terminates for every core build produces: after finitely many steps a step
\* returns GameOver and the loop stops.
C34_RunReachesGameOver == <>(status = "GameOver")

\* the event sent for step n of the match
EventOf(n) == [outcome |-> outcomes[n], step |-> n]

\* C35: the steps the executor has run and the visualiser has not yet consumed never
\* exceed the capacity of the event channel plus one, and no event is dropped or
\* reordered: the events received, then those in the channel, then the one the executor
\* is about to send are the outcomes of the steps, in order.
C35_ExecutorThrottled ==
    /\ Len(outcomes) - Len(received) <= ChannelCapacity + 1
    /\ Len(event_channel) <= ChannelCapacity
    /\ LET sent == IF executor = "send" THEN Len(outcomes) - 1 ELSE Len(outcomes)
       IN  \/ received \o event_channel = [n \in 1..sent |-> EventOf(n)]
           \/ /\ Stopped(visualiser)
              /\ \E m \in 0..sent : received \o event_channel = [n \in 1..m |-> EventOf(n)]

\* C35 witness: the visualiser is paused, the event channel is full and the executor,
\* one more step ahead, is blocked in send.
C35_Witness ==
    /\ visualiser = "paused"
    /\ Len(event_channel) = ChannelCapacity
    /\ executor = "send"
    /\ Len(outcomes) - Len(received) = ChannelCapacity + 1

\* C36: once the controller has sent Close on both control channels, the executor
\* thread and the visualiser thread both eventually stop, in every interleaving; no
\* thread is left blocked for ever.
C36_CloseStopsBothThreads ==
    (controller = "done") ~> (Stopped(executor) /\ Stopped(visualiser))

\* C36 witness: Close has been sent on both channels while the executor is blocked
\* sending on the full event channel and the visualiser is paused, waiting for its next
\* control message.
C36_Witness ==
    /\ controller = "done"
    /\ executor = "send"
    /\ is_full(event_channel)
    /\ visualiser = "paused"
    /\ visualiser_canceller # <<>>

\* C37: when the match has reached GameOver the executor sends that event and stops,
\* the visualiser consumes the remaining events and returns Ok instead of failing on the
\* disconnected channel, and run_with_visualiser returns without a further key press;
\* and no key press makes the controller thread fail in a send to a thread that has
\* stopped.
C37_GameOverEndsVisualiser ==
    /\ [](status = "GameOver" => visualiser \notin {"failed", "panicked"})
    /\ [](controller # "panicked")
    /\ (status = "GameOver")
          ~> (executor = "done" /\ visualiser = "done" /\ Stopped(controller))

\* the ORG expressions among the lines of a source, in order
OrgsOf(list) == lines_by_type(list).org_statements

\* C38: the expression on the END line determines the start offset only when the source
\* has no ORG statement; when an ORG statement appears before END, the start offset is
\* the value of that ORG (of the last one) and the END expression does not override it.
C38_EndDoesNotOverrideOrg ==
    (last_call.fn = "from_lines" /\ last_call.ret.kind = "Ok") =>
        LET list == last_call.arg[1]
            end == last_call.arg[2]
            labels == get_label_definitions(lines_by_type(list).instructions).val
            start == last_call.ret.val.starts_at_line
        IN  /\ (OrgsOf(list) = <<>> /\ end # <<>>)
               => start = Wrap(absolute_value(end[1], labels).val)
            /\ OrgsOf(list) # <<>>
               => start = Wrap(absolute_value(OrgsOf(list)[Len(OrgsOf(list))], labels).val)

\* the places (instruction k, position j) where a label is attached
Attachments(instrs, label) ==
    {<<k, j>> \in (1..Len(instrs)) \X (1..MaxSourceLines) :
        j <= Len(instrs[k].label_list) /\ instrs[k].label_list[j] = label}

\* the labels attached to some instruction, and those attached more than once
AttachedLabels(instrs) ==
    {instrs[k].label_list[j] : <<k, j>> \in
        {p \in (1..Len(instrs)) \X (1..MaxSourceLines) : p[2] <= Len(instrs[p[1]].label_list)}}
DuplicatedLabels(instrs) ==
    {l \in AttachedLabels(instrs) : Cardinality(Attachments(instrs, l)) > 1}

\* C39: the label table maps every label to the zero-based index of the instruction it
\* is attached to, counting instruction lines only (comments, metadata and ORG lines do
\* not advance the index); if a label is attached twice, to the same or to different
\* instructions, resolution fails with DuplicateLabelDefinition(name) and no warrior is
\* produced.
C39_LabelTable ==
    /\ last_call.fn = "get_label_definitions" =>
          LET instrs == last_call.arg[1]
              ret == last_call.ret
          IN  IF DuplicatedLabels(instrs) = {}
              THEN /\ ret.kind = "Ok"
                   /\ DOMAIN ret.val = AttachedLabels(instrs)
                   /\ \A l \in AttachedLabels(instrs) :
                         \E p \in Attachments(instrs, l) : ret.val[l] = p[1] - 1
              ELSE /\ ret.kind = "DuplicateLabelDefinition"
                   /\ ret.name \in DuplicatedLabels(instrs)
    /\ last_call.fn = "from_lines" =>
          LET list == last_call.arg[1]
              end == last_call.arg[2]
              ret == last_call.ret
              instrs == lines_by_type(list).instructions
          IN  /\ DuplicatedLabels(instrs) # {} =>
                    /\ ret.kind # "Ok"
                    /\ Len(lines_by_type(list).metadata) <= 1 =>
                          /\ ret.kind = "DuplicateLabelDefinition"
                          /\ ret.name \in DuplicatedLabels(instrs)
              /\ (ret.kind = "Ok" /\ end = <<Label("world")>>) =>
                    \E p \in Attachments(instrs, "world") :
                        ret.val.starts_at_line = p[1] - 1

\* a source with a comment before its instructions, the label hello attached to two
\* of them, has been resolved
C39_Witness ==
    /\ last_call.fn = "from_lines"
    /\ Len(last_call.arg[1]) = 3
    /\ last_call.arg[1][1] = LineComment
    /\ last_call.arg[1][2].line = "Instruction"
    /\ last_call.arg[1][2].label_list = <<"hello">>
    /\ last_call.arg[1][3].line = "Instruction"
    /\ last_call.arg[1][3].label_list = <<"hello", "world">>
    /\ last_call.ret = [kind |-> "DuplicateLabelDefinition", name |-> "hello"]

\* text s has the text part in it
Contains(s, part) ==
    \E k \in 0..(Len(s) - Len(part)) : SubSeq(s, k + 1, k + Len(part)) = part

\* C40: definition substitution replaces the defined label only where it is a complete
\* token: an identifier that merely contains the label (x2 or ax when x is defined) and
\* the text of comments are left unchanged, and the definition line itself is removed
\* rather than rewritten (no EQU is left in the text).
C40_TokenAwareSubstitution ==
    last_call.fn = "replace_definitions" =>
        LET source == last_call.arg[1]
            replaced == last_call.ret.val
            defined_x == \E k \in 1..Len(source) :
                            source[k] = DefinitionLine(<<"x">>, <<"4">>, <<>>)
        IN  /\ ~Contains(replaced, <<"E", "Q", "U">>)
            /\ \A k \in 1..Len(source) :
                  /\ Contains(replaced, source[k].comment)
                  /\ (defined_x /\ source[k] = JmpLine(<<"x", "2">>, <<>>))
                     => Contains(replaced, <<"J", "M", "P", " ", "x", "2", "\n">>)
                  /\ (defined_x /\ source[k] = JmpLine(<<"a", "x">>, <<>>))
                     => Contains(replaced, <<"J", "M", "P", " ", "a", "x", "\n">>)

====
